---- MODULE Spec2Model ----
(***************************************************************************)
(* Authentication core of codestandoff-backend: password signup / login /  *)
(* logout / me over the users and sessions tables, JWT issue and           *)
(* validation, and the OAuth join-or-create account linkage.               *)
(*                                                                         *)
(* Every handler is written once, as a step function over the store        *)
(* (one step per store round trip).  Spec runs each request to completion  *)
(* in one action (requests served one after the other); SpecConc           *)
(* interleaves the steps of the requests in flight; SpecFault serves       *)
(* requests while the store goes down and comes back and with or without   *)
(* a ResponseWriter in the request context; SpecOAuth follows one browser  *)
(* through the OAuth handshakes of both providers; SpecRace lets one       *)
(* Logout and one Login of the same user run step by step against each     *)
(* other; SpecQuestions serves GetQuestions pages of the question table;   *)
(* SpecAccounts adds the session maintenance calls of the store to the     *)
(* account handlers; SpecGitHub serves GitHub callbacks for every shape of *)
(* profile; SpecOutage loses the store between the round trips of a        *)
(* Signup or Login.                                                        *)
(*                                                                         *)
(* Time is counted in ticks, TicksPerSec ticks to the second, so that the  *)
(* truncation to whole seconds done by jwt.NewNumericDate and by           *)
(* time.Format(time.RFC3339) is visible.                                   *)
(***************************************************************************)
EXTENDS Integers, Sequences, FiniteSets, TLC

\* ------------------------------------------------------------------ bounds
\* session rows ever created
MaxSessions == 2
\* clock ticks the model follows past each point of interest
MaxSkew == 1
\* clock resolution, ticks per second: the first ticks fall in one second
TicksPerSec == MaxSkew + 1
\* requests in flight at once (SpecConc)
MaxInflight == 2
\* user rows
MaxUsers == MaxSessions + 1

\* --------------------------------------------------------------- constants
\* 7 * 24 * time.Hour, in seconds
TokenTTL == 7 * 24 * 3600
TokenTTLTicks == TokenTTL * TicksPerSec
jwtSecret == "your-secret-key-change-in-production"

Emails == {"a@x.com", "b@x.com"}
Passwords == {"pw1", "pw2"}

ErrNil == "nil"
ErrNoRows == "sql: no rows in result set"
ErrDuplicateKey == "pq: duplicate key value violates unique constraint"
ErrNotAuthenticated == "not authenticated"
ErrInvalidToken == "invalid or expired token"
ErrInvalidUserID == "invalid user ID in token"
ErrInvalidUUID == "invalid UUID length"
ErrUserNotFound == "user not found"
ErrEmailExists == "user with this email already exists"
ErrInvalidCredentials == "invalid email or password"
ErrCreateUser == "failed to create user"
ErrCreateSession == "failed to create session"
ErrCheckUser == "failed to check user existence"
ErrGetUser == "failed to get user"
ErrConnection == "driver: bad connection"

VARIABLES users, sessions, sessSeq, dbDown, now, resp, issued, signedUp, reqs, browser,
          questions, listing

vars ==
  <<users, sessions, sessSeq, dbDown, now, resp, issued, signedUp, reqs, browser, questions,
    listing>>

\* ------------------------------------------------------------ value helpers
\* uuid.UUID.String(): the textual form of an id
UUIDString(id) == [valid |-> TRUE, id |-> id]
\* a string that is no UUID
BadUUIDString == [valid |-> FALSE, id |-> 0]
\* uuid.Parse
UUIDParse(s) == IF s.valid THEN [err |-> ErrNil, id |-> s.id] ELSE [err |-> ErrInvalidUUID, id |-> 0]

\* Names (first, last, display, login) are sequences of characters, so that
\* splitName can take them apart; emails and ids are atoms.
\* sql.NullString built from a name: invalid (NULL) when the name is empty
NullString(s) == [Valid |-> s # <<>>, String |-> s]
NullName == [Valid |-> FALSE, String |-> <<>>]
\* sql.NullString{} in an id column, and an id string passed as the column value
SqlNull == [Valid |-> FALSE, String |-> ""]
ValidString(s) == [Valid |-> TRUE, String |-> s]

\* fmt.Errorf("<msg>: %w", err)
Wrap(msg, err) == msg \o ": " \o err

\* *string arguments of the GraphQL mutations
NilPtr == [isNil |-> TRUE, val |-> <<>>]
Ptr(s) == [isNil |-> FALSE, val |-> s]
Deref(p) == IF p.isNil THEN <<>> ELSE p.val

\* time.Format(time.RFC3339): whole seconds
FormatRFC3339(t) == [rfc3339 |-> t \div TicksPerSec]

\* bcrypt.GenerateFromPassword / the empty hash of OAuth accounts
HashPassword(password) == [alg |-> "bcrypt", pw |-> password]
EmptyHash == [alg |-> "", pw |-> ""]

VerifyPasswordNoCheck(hashedPassword, password) == hashedPassword.alg = "bcrypt"

VerifyPasswordComparesText(hashedPassword, password) == hashedPassword.pw = password

\* bcrypt.CompareHashAndPassword(...) == nil
VerifyPassword(hashedPassword, password) ==
  hashedPassword.alg = "bcrypt" /\ hashedPassword.pw = password

\* ------------------------------------------------------------------- tokens
\* jwt.NewNumericDate: truncated to whole seconds
NumericDate(t) == t \div TicksPerSec

GetTokenExpiry(t) == t + TokenTTLTicks

GenerateJWTNoSubject(userID, email, t) ==
  [kind |-> "jwt", sig |-> jwtSecret,
   claims |-> [userId |-> UUIDString(userID), email |-> email,
               exp |-> NumericDate(t + TokenTTLTicks), iat |-> NumericDate(t),
               nbf |-> NumericDate(t), iss |-> "codestandoff",
               sub |-> [valid |-> FALSE, id |-> 0]]]

GenerateJWT(userID, email, t) ==
  [kind |-> "jwt", sig |-> jwtSecret,
   claims |-> [userId |-> UUIDString(userID), email |-> email,
               exp |-> NumericDate(t + TokenTTLTicks), iat |-> NumericDate(t),
               nbf |-> NumericDate(t), iss |-> "codestandoff",
               sub |-> UUIDString(userID)]]

NoClaims == [userId |-> BadUUIDString, email |-> "", exp |-> 0, iat |-> 0, nbf |-> 0,
             iss |-> "", sub |-> BadUUIDString]

ValidateJWTAtExpInclusive(tokenString, t) ==
  IF tokenString.kind # "jwt" THEN [err |-> "token is malformed", claims |-> NoClaims]
  ELSE IF tokenString.sig # jwtSecret
    THEN [err |-> "signature is invalid", claims |-> NoClaims]
  ELSE IF ~(t <= tokenString.claims.exp * TicksPerSec)
    THEN [err |-> "token is expired", claims |-> NoClaims]
  ELSE IF t < tokenString.claims.nbf * TicksPerSec
    THEN [err |-> "token is not valid yet", claims |-> NoClaims]
  ELSE [err |-> ErrNil, claims |-> tokenString.claims]

\* jwt.ParseWithClaims with the HS256 key function, then token.Valid
ValidateJWTAt(tokenString, t) ==
  IF tokenString.kind # "jwt" THEN [err |-> "token is malformed", claims |-> NoClaims]
  ELSE IF tokenString.sig # jwtSecret
    THEN [err |-> "signature is invalid", claims |-> NoClaims]
  ELSE IF ~(t < tokenString.claims.exp * TicksPerSec)
    THEN [err |-> "token is expired", claims |-> NoClaims]
  ELSE IF t < tokenString.claims.nbf * TicksPerSec
    THEN [err |-> "token is not valid yet", claims |-> NoClaims]
  ELSE [err |-> ErrNil, claims |-> tokenString.claims]

\* a variant that also requires a live session row (tokens revoked by logout)
ValidateJWTWithSession(db, tokenString, t) ==
  IF \E s \in db.sessions : s.token = tokenString
  THEN ValidateJWTAt(tokenString, t)
  ELSE [err |-> "session revoked", claims |-> NoClaims]

\* ValidateJWT as the handlers call it; the store is passed but never read
ValidateJWT(db, tokenString, t) == ValidateJWTAt(tokenString, t)

\* cookies of a request / Set-Cookie headers of a response
NoCookie == [kind |-> "none"]
GarbageToken == [kind |-> "garbage"]
AuthCookie(token, expiresAt) ==
  [Name |-> "auth_token", Value |-> token, Path |-> "/", Expires |-> expiresAt,
   MaxAge |-> 0, HttpOnly |-> TRUE, Secure |-> FALSE, SameSite |-> "Lax"]
ClearedAuthCookie ==
  [Name |-> "auth_token", Value |-> NoCookie, Path |-> "/", Expires |-> 0,
   MaxAge |-> -1, HttpOnly |-> TRUE, Secure |-> FALSE, SameSite |-> "Lax"]

\* -------------------------------------------------------------------- store
\* the database handle: the two tables, the session id source, availability
DB == [users |-> users, sessions |-> sessions, sessSeq |-> sessSeq, down |-> dbDown]

NoUser ==
  [id |-> 0, email |-> "", passwordHash |-> EmptyHash, firstName |-> NullName,
   lastName |-> NullName, emailVerified |-> FALSE, googleID |-> SqlNull,
   githubID |-> SqlNull, rating |-> 0, peakRating |-> 0, currentRank |-> "",
   rankTier |-> "", rankSubdivision |-> 0, totalMatches |-> 0, wins |-> 0,
   losses |-> 0, lastActivity |-> 0, createdAt |-> 0, updatedAt |-> 0]

NoSession == [id |-> 0, userId |-> 0, token |-> NoCookie, expiresAt |-> 0, createdAt |-> 0]

\* the column values of the INSERT INTO users statements
UserRow(id, email, passwordHash, firstName, lastName, emailVerified, googleID, githubID, t) ==
  [id |-> id, email |-> email, passwordHash |-> passwordHash,
   firstName |-> NullString(firstName), lastName |-> NullString(lastName),
   emailVerified |-> emailVerified, googleID |-> googleID, githubID |-> githubID,
   rating |-> 0, peakRating |-> 0, currentRank |-> "Bronze 1", rankTier |-> "Bronze",
   rankSubdivision |-> 1, totalMatches |-> 0, wins |-> 0, losses |-> 0,
   lastActivity |-> t, createdAt |-> t, updatedAt |-> t]

\* uuid.New() for a user row: an id no row has
NewUserID(db) == Cardinality(db.users) + 1

\* the unique constraint on users.email (the schema is not part of the source
\* tree; the constraint is the one the design relies on): the row is rejected
\* when a row with its email exists
UsersEmailKey(db, row) == \E u \in db.users : u.email = row.email

InsertUserNoConstraint(db, row) ==
  IF db.down THEN [err |-> ErrConnection, db |-> db, user |-> NoUser]
  ELSE [err |-> ErrNil, db |-> [db EXCEPT !.users = @ \cup {row}], user |-> row]

\* INSERT INTO users ... RETURNING
InsertUser(db, row) ==
  IF db.down THEN [err |-> ErrConnection, db |-> db, user |-> NoUser]
  ELSE IF UsersEmailKey(db, row)
    THEN [err |-> ErrDuplicateKey, db |-> db, user |-> NoUser]
  ELSE [err |-> ErrNil, db |-> [db EXCEPT !.users = @ \cup {row}], user |-> row]

CreateUser(db, email, password, firstName, lastName, t) ==
  InsertUser(db, UserRow(NewUserID(db), email, HashPassword(password),
                         firstName, lastName, FALSE, SqlNull, SqlNull, t))

\* SELECT ... FROM users WHERE <column> = $1, scanned with QueryRow
SelectUser(db, matching) ==
  IF db.down THEN [err |-> ErrConnection, user |-> NoUser]
  ELSE IF matching = {} THEN [err |-> ErrNoRows, user |-> NoUser]
  ELSE [err |-> ErrNil, user |-> CHOOSE u \in matching : \A v \in matching : u.id <= v.id]

GetUserByEmailWrongColumn(db, email) ==
  SelectUser(db, {u \in db.users : u.googleID.String = email})

GetUserByEmail(db, email) == SelectUser(db, {u \in db.users : u.email = email})

GetUserByIDAny(db, id) == SelectUser(db, {u \in db.users : TRUE})

GetUserByID(db, id) == SelectUser(db, {u \in db.users : u.id = id})

InsertOAuthUserUnverified(db, email, firstName, lastName, googleID, githubID, t) ==
  InsertUser(db, UserRow(NewUserID(db), email, EmptyHash, firstName, lastName,
                         FALSE, googleID, githubID, t))

\* the insert of an OAuth account: no password, verified email, the provider id
\* as passed (a string, never NULL), the other provider's id NULL
InsertOAuthUser(db, email, firstName, lastName, googleID, githubID, t) ==
  InsertUser(db, UserRow(NewUserID(db), email, EmptyHash, firstName, lastName,
                         TRUE, googleID, githubID, t))

GetUserByGoogleID(db, googleID) ==
  SelectUser(db, {u \in db.users : u.googleID.Valid /\ u.googleID.String = googleID})

GetUserByGithubID(db, githubID) ==
  SelectUser(db, {u \in db.users : u.githubID.Valid /\ u.githubID.String = githubID})

UpdateUserGoogleIDDropsPassword(db, userID, googleID, t) ==
  IF db.down THEN [err |-> ErrConnection, db |-> db]
  ELSE [err |-> ErrNil,
        db |-> [db EXCEPT !.users =
                  {IF u.id = userID
                   THEN [u EXCEPT !.googleID = ValidString(googleID), !.updatedAt = t,
                                  !.passwordHash = EmptyHash]
                   ELSE u : u \in @}]]

\* UPDATE users SET google_id = $1, updated_at = $2 WHERE id = $3
UpdateUserGoogleID(db, userID, googleID, t) ==
  IF db.down THEN [err |-> ErrConnection, db |-> db]
  ELSE [err |-> ErrNil,
        db |-> [db EXCEPT !.users =
                  {IF u.id = userID
                   THEN [u EXCEPT !.googleID = ValidString(googleID), !.updatedAt = t]
                   ELSE u : u \in @}]]

UpdateUserGithubIDAppends(db, userID, githubID, t) ==
  IF db.down THEN [err |-> ErrConnection, db |-> db]
  ELSE [err |-> ErrNil,
        db |-> [db EXCEPT !.users =
                  {IF u.id = userID
                   THEN [u EXCEPT !.githubID = ValidString(@.String \o githubID),
                                  !.updatedAt = t]
                   ELSE u : u \in @}]]

\* UPDATE users SET github_id = $1, updated_at = $2 WHERE id = $3
UpdateUserGithubID(db, userID, githubID, t) ==
  IF db.down THEN [err |-> ErrConnection, db |-> db]
  ELSE [err |-> ErrNil,
        db |-> [db EXCEPT !.users =
                  {IF u.id = userID
                   THEN [u EXCEPT !.githubID = ValidString(githubID), !.updatedAt = t]
                   ELSE u : u \in @}]]

CreateSessionReplacing(db, userID, token, expiresAt, t) ==
  LET row == [id |-> db.sessSeq + 1, userId |-> userID, token |-> token,
              expiresAt |-> expiresAt, createdAt |-> t]
  IN IF db.down THEN [err |-> ErrConnection, db |-> db, session |-> NoSession]
     ELSE [err |-> ErrNil, session |-> row,
           db |-> [db EXCEPT !.sessions = {s \in @ : s.userId # userID} \cup {row},
                             !.sessSeq = @ + 1]]

CreateSessionNoOwner(db, userID, token, expiresAt, t) ==
  LET row == [id |-> db.sessSeq + 1, userId |-> 0, token |-> token,
              expiresAt |-> expiresAt, createdAt |-> t]
  IN IF db.down THEN [err |-> ErrConnection, db |-> db, session |-> NoSession]
     ELSE [err |-> ErrNil, session |-> row,
           db |-> [db EXCEPT !.sessions = @ \cup {row}, !.sessSeq = @ + 1]]

CreateSession(db, userID, token, expiresAt, t) ==
  LET row == [id |-> db.sessSeq + 1, userId |-> userID, token |-> token,
              expiresAt |-> expiresAt, createdAt |-> t]
  IN IF db.down THEN [err |-> ErrConnection, db |-> db, session |-> NoSession]
     ELSE [err |-> ErrNil, session |-> row,
           db |-> [db EXCEPT !.sessions = @ \cup {row}, !.sessSeq = @ + 1]]

\* SELECT ... FROM sessions WHERE token = $1 AND expires_at > NOW()
GetSessionByToken(db, token, t) ==
  LET live == {s \in db.sessions : s.token = token /\ s.expiresAt > t}
  IN IF db.down THEN [err |-> ErrConnection, session |-> NoSession]
     ELSE IF live = {} THEN [err |-> ErrNoRows, session |-> NoSession]
     ELSE [err |-> ErrNil, session |-> CHOOSE s \in live : \A r \in live : s.id <= r.id]

DeleteSessionNoop(db, token) == [err |-> ErrNil, db |-> db]

\* DELETE FROM sessions WHERE token = $1
DeleteSession(db, token) ==
  IF db.down THEN [err |-> ErrConnection, db |-> db]
  ELSE [err |-> ErrNil, db |-> [db EXCEPT !.sessions = {s \in @ : s.token # token}]]

DeleteUserSessionsAndUser(db, userID) ==
  IF db.down THEN [err |-> ErrConnection, db |-> db]
  ELSE [err |-> ErrNil,
        db |-> [db EXCEPT !.sessions = {s \in @ : s.userId # userID},
                          !.users = {u \in @ : u.id # userID}]]

\* DELETE FROM sessions WHERE user_id = $1
DeleteUserSessions(db, userID) ==
  IF db.down THEN [err |-> ErrConnection, db |-> db]
  ELSE [err |-> ErrNil, db |-> [db EXCEPT !.sessions = {s \in @ : s.userId # userID}]]

\* DELETE FROM sessions WHERE expires_at < NOW()
CleanExpiredSessions(db, t) ==
  IF db.down THEN [err |-> ErrConnection, db |-> db]
  ELSE [err |-> ErrNil, db |-> [db EXCEPT !.sessions = {s \in @ : ~(s.expiresAt < t)}]]

\* ----------------------------------------------------------------- requests
NoData == [kind |-> "null"]

\* a request entering its handler; upstream lists the calls to the OAuth
\* provider the handler has made
NewReq(op, in) ==
  [op |-> op, pc |-> "start", in |-> in, user |-> NoUser, upstream |-> <<>>,
   out |-> [err |-> ErrNil, data |-> NoData, cookies |-> <<>>]]

\* return from the handler with (data, err)
Finish(rq, err, data) == [rq EXCEPT !.pc = "done", !.out.err = err, !.out.data = data]

\* dbUserToModel: database row to GraphQL user
dbUserToModel(u) ==
  [id |-> UUIDString(u.id), email |-> u.email, emailVerified |-> u.emailVerified,
   firstName |-> IF u.firstName.Valid THEN Ptr(u.firstName.String) ELSE NilPtr,
   lastName |-> IF u.lastName.Valid THEN Ptr(u.lastName.String) ELSE NilPtr,
   createdAt |-> FormatRFC3339(u.createdAt), updatedAt |-> FormatRFC3339(u.updatedAt)]

AuthPayload(u, token, expiresAt) ==
  [kind |-> "auth", user |-> dbUserToModel(u), token |-> token,
   expiresAt |-> FormatRFC3339(expiresAt)]

\* getCookieFromContext: the auth_token cookie of the request, if any
getCookieFromContext(rq) ==
  IF rq.in.cookie.kind = "none" THEN [err |-> "http: named cookie not present", cookie |-> NoCookie]
  ELSE [err |-> ErrNil, cookie |-> rq.in.cookie]

SetAuthCookieNoWriterCheck(rq, token, expiresAt) ==
  [rq EXCEPT !.out.cookies = Append(@, AuthCookie(token, expiresAt))]

\* SetAuthCookie: nothing when no ResponseWriter is in the context
SetAuthCookie(rq, token, expiresAt) ==
  IF rq.in.w THEN [rq EXCEPT !.out.cookies = Append(@, AuthCookie(token, expiresAt))] ELSE rq

ClearAuthCookie(rq) ==
  IF rq.in.w THEN [rq EXCEPT !.out.cookies = Append(@, ClearedAuthCookie)] ELSE rq

IssueSessionCookieFirst(db, rq, t) ==
  LET jwtToken == GenerateJWT(rq.user.id, rq.user.email, t)
      expiresAt == GetTokenExpiry(t)
      r == CreateSession(db, rq.user.id, jwtToken, expiresAt, t)
      set == SetAuthCookie(rq, jwtToken, expiresAt)
  IN IF r.err # ErrNil THEN [db |-> db, rq |-> Finish(set, Wrap(ErrCreateSession, r.err), NoData)]
     ELSE [db |-> r.db,
           rq |-> Finish(set, ErrNil, AuthPayload(rq.user, jwtToken, r.session.expiresAt))]

\* the shared tail of Signup and Login: mint the token, persist the session,
\* set the cookie, build the payload
IssueSession(db, rq, t) ==
  LET jwtToken == GenerateJWT(rq.user.id, rq.user.email, t)
      expiresAt == GetTokenExpiry(t)
      r == CreateSession(db, rq.user.id, jwtToken, expiresAt, t)
  IN IF r.err # ErrNil THEN [db |-> db, rq |-> Finish(rq, Wrap(ErrCreateSession, r.err), NoData)]
     ELSE [db |-> r.db,
           rq |-> Finish(SetAuthCookie(rq, jwtToken, expiresAt), ErrNil,
                         AuthPayload(rq.user, jwtToken, r.session.expiresAt))]

Signup(db, rq, t) ==
  IF rq.pc = "start" THEN
    LET r == GetUserByEmail(db, rq.in.email)
    IN IF r.err = ErrNil THEN [db |-> db, rq |-> Finish(rq, ErrEmailExists, NoData)]
       ELSE IF r.err # ErrNoRows THEN [db |-> db, rq |-> Finish(rq, Wrap(ErrCheckUser, r.err), NoData)]
       ELSE [db |-> db, rq |-> [rq EXCEPT !.pc = "create"]]
  ELSE IF rq.pc = "create" THEN
    LET r == CreateUser(db, rq.in.email, rq.in.password,
                        Deref(rq.in.firstName), Deref(rq.in.lastName), t)
    IN IF r.err # ErrNil THEN [db |-> db, rq |-> Finish(rq, Wrap(ErrCreateUser, r.err), NoData)]
       ELSE [db |-> r.db, rq |-> [rq EXCEPT !.pc = "session", !.user = r.user]]
  ELSE IssueSession(db, rq, t)

LoginTellsUnknown(db, rq, t) ==
  IF rq.pc = "start" THEN
    LET r == GetUserByEmail(db, rq.in.email)
    IN IF r.err # ErrNil THEN [db |-> db, rq |-> Finish(rq, ErrUserNotFound, NoData)]
       ELSE IF ~VerifyPassword(r.user.passwordHash, rq.in.password)
         THEN [db |-> db, rq |-> Finish(rq, ErrInvalidCredentials, NoData)]
       ELSE [db |-> db, rq |-> [rq EXCEPT !.pc = "session", !.user = r.user]]
  ELSE IssueSession(db, rq, t)

Login(db, rq, t) ==
  IF rq.pc = "start" THEN
    LET r == GetUserByEmail(db, rq.in.email)
    IN IF r.err # ErrNil
         THEN IF r.err = ErrNoRows
                THEN [db |-> db, rq |-> Finish(rq, ErrInvalidCredentials, NoData)]
                ELSE [db |-> db, rq |-> Finish(rq, Wrap(ErrGetUser, r.err), NoData)]
       ELSE IF ~VerifyPassword(r.user.passwordHash, rq.in.password)
         THEN [db |-> db, rq |-> Finish(rq, ErrInvalidCredentials, NoData)]
       ELSE [db |-> db, rq |-> [rq EXCEPT !.pc = "session", !.user = r.user]]
  ELSE IssueSession(db, rq, t)

LogoutReportsFailure(db, rq, t) ==
  LET c == getCookieFromContext(rq)
      d == DeleteSession(db, c.cookie)
  IN IF c.err = ErrNil /\ c.cookie.kind # "none" /\ d.err # ErrNil
     THEN [db |-> db, rq |-> Finish(rq, d.err, NoData)]
     ELSE [db |-> IF c.err = ErrNil /\ c.cookie.kind # "none" THEN d.db ELSE db,
           rq |-> Finish(ClearAuthCookie(rq), ErrNil, [kind |-> "bool", value |-> TRUE])]

Logout(db, rq, t) ==
  LET c == getCookieFromContext(rq)
      db1 == IF c.err = ErrNil /\ c.cookie.kind # "none"
             THEN DeleteSession(db, c.cookie).db ELSE db
  IN [db |-> db1,
      rq |-> Finish(ClearAuthCookie(rq), ErrNil, [kind |-> "bool", value |-> TRUE])]

Me(db, rq, t) ==
  LET c == getCookieFromContext(rq)
      v == ValidateJWT(db, c.cookie, t)
      id == UUIDParse(v.claims.userId)
      r == GetUserByID(db, id.id)
  IN IF c.err # ErrNil \/ c.cookie.kind = "none"
       THEN [db |-> db, rq |-> Finish(rq, ErrNotAuthenticated, NoData)]
     ELSE IF v.err # ErrNil THEN [db |-> db, rq |-> Finish(rq, ErrInvalidToken, NoData)]
     ELSE IF id.err # ErrNil THEN [db |-> db, rq |-> Finish(rq, Wrap(ErrInvalidUserID, id.err), NoData)]
     ELSE IF r.err # ErrNil
       THEN IF r.err = ErrNoRows
              THEN [db |-> db, rq |-> Finish(rq, ErrUserNotFound, NoData)]
              ELSE [db |-> db, rq |-> Finish(rq, Wrap(ErrGetUser, r.err), NoData)]
     ELSE [db |-> db, rq |-> Finish(rq, ErrNil, [kind |-> "user", user |-> dbUserToModel(r.user)])]

\* ----------------------------------------------------------- OAuth callbacks
ErrStateCookie == "State cookie not found"
ErrInvalidState == "Invalid state parameter"
ErrNoCode == "Code not provided"
ErrExchange == "Failed to exchange code for token"
ErrUserInfo == "Failed to get user info"
ErrCreateGetUser == "Failed to create/get user"
ErrSessionHTTP == "Failed to create session"
ErrUpdateGoogleID == "failed to update Google ID"
ErrUpdateGithubID == "failed to update GitHub ID"
ErrCheckGoogleID == "failed to check user by Google ID"
ErrCheckGithubID == "failed to check user by GitHub ID"
DefaultRedirectURI == "http://localhost:3000"

\* GenerateState: 32 bytes read from crypto/rand, base64-encoded; rand is what
\* the read returned
GenerateState(rand) == [err |-> ErrNil, state |-> rand]

\* the transient cookies GoogleAuth and GitHubAuth set
OAuthCookieMaxAge == 10 * 60

OAuthCookie(name, value) ==
  [Name |-> name, Value |-> value, Path |-> "/", MaxAge |-> OAuthCookieMaxAge,
   HttpOnly |-> TRUE, Secure |-> FALSE, SameSite |-> "Lax"]

\* the body GoogleAuth and GitHubAuth share: mint a state, store it and the
\* redirect target in the cookies oauth_state and oauth_redirect_uri, redirect
\* to the provider's consent page with the state
OAuthInitiate(rq, provider) ==
  LET g == GenerateState(rq.in.rand)
      redirectURI == IF rq.in.redirect_uri = "" THEN DefaultRedirectURI ELSE rq.in.redirect_uri
  IN Finish([rq EXCEPT !.out.cookies = @ \o <<OAuthCookie("oauth_state", g.state),
                                                OAuthCookie("oauth_redirect_uri", redirectURI)>>],
            ErrNil,
            [kind |-> "authorize", status |-> 307, provider |-> provider, state |-> g.state])

GoogleAuth(db, rq, t) == [db |-> db, rq |-> OAuthInitiate(rq, "google")]

GitHubAuth(db, rq, t) == [db |-> db, rq |-> OAuthInitiate(rq, "github")]

HTTPErrorResetsHeaders(rq, msg, status) ==
  Finish([rq EXCEPT !.out.cookies = <<>>], msg, [kind |-> "http", status |-> status])

\* http.Error(w, msg, status)
HTTPError(rq, msg, status) == Finish(rq, msg, [kind |-> "http", status |-> status])

\* the Set-Cookie header that clears a transient OAuth cookie
ClearedOAuthCookie(name) ==
  [Name |-> name, Value |-> "", Path |-> "/", MaxAge |-> -1, HttpOnly |-> TRUE]

\* r.Cookie(name) on the transient cookies of the callback request
RequestCookie(c) ==
  IF c.present THEN [err |-> ErrNil, Value |-> c.value]
  ELSE [err |-> "http: named cookie not present", Value |-> ""]

\* strings.Fields / strings.Join(parts, " ") over sequences of characters
Space == " "
\* unicode.IsSpace, for the characters the names of the model are made of
IsSpace(c) == c \in {Space, "\t"}

FieldsKeepsEmpty(str) ==
  IF str = <<>> THEN <<>>
  ELSE IF \E i \in 1..Len(str) : IsSpace(str[i])
    THEN LET n == CHOOSE i \in 1..Len(str) :
                    IsSpace(str[i]) /\ \A j \in 1..(i - 1) : ~IsSpace(str[j])
         IN <<SubSeq(str, 1, n - 1), SubSeq(str, n + 1, Len(str))>>
  ELSE <<str>>

RECURSIVE Fields(_)
Fields(str) ==
  IF str = <<>> THEN <<>>
  ELSE IF IsSpace(Head(str)) THEN Fields(Tail(str))
  ELSE LET n == IF \E i \in 1..Len(str) : IsSpace(str[i])
                THEN (CHOOSE i \in 1..Len(str) :
                        IsSpace(str[i]) /\ \A j \in 1..(i - 1) : ~IsSpace(str[j])) - 1
                ELSE Len(str)
       IN <<SubSeq(str, 1, n)>> \o Fields(SubSeq(str, n + 1, Len(str)))

RECURSIVE Join(_)
Join(parts) ==
  IF parts = <<>> THEN <<>>
  ELSE IF Len(parts) = 1 THEN parts[1]
  ELSE parts[1] \o <<Space>> \o Join(Tail(parts))

\* splitName: first word, and the rest joined by single spaces
splitName(name) ==
  LET parts == Fields(name)
  IN IF Len(parts) = 0 THEN << <<>> >>
     ELSE IF Len(parts) = 1 THEN <<parts[1]>>
     ELSE <<parts[1], Join(Tail(parts))>>

getGitHubUserInfoFirstListed(api) ==
  LET info == api.user.body
      fromList == IF Len(api.emails.body) > 0 THEN api.emails.body[1].Email ELSE ""
      one == <<"GET /user">>
      two == <<"GET /user", "GET /user/emails">>
  IN IF api.user.err # ErrNil THEN [err |-> api.user.err, info |-> info, calls |-> one]
     ELSE IF api.user.status # 200
       THEN [err |-> "GitHub API returned status " \o ToString(api.user.status),
             info |-> info, calls |-> one]
     ELSE IF info.Email # "" THEN [err |-> ErrNil, info |-> info, calls |-> one]
     ELSE IF api.emails.err # ErrNil THEN [err |-> api.emails.err, info |-> info, calls |-> two]
     ELSE IF api.emails.status = 200 /\ api.emails.decodes
       THEN [err |-> ErrNil, info |-> [info EXCEPT !.Email = fromList], calls |-> two]
     ELSE [err |-> ErrNil, info |-> info, calls |-> two]

\* getGitHubUserInfo: GET /user, and GET /user/emails when the profile has no
\* public email; api holds what the two endpoints answer
getGitHubUserInfo(api) ==
  LET info == api.user.body
      primary == {i \in 1..Len(api.emails.body) : api.emails.body[i].Primary}
      first == CHOOSE i \in primary : \A j \in primary : i <= j
      flagged == IF primary # {} THEN api.emails.body[first].Email ELSE ""
      fromList == IF flagged = "" /\ Len(api.emails.body) > 0
                  THEN api.emails.body[1].Email
                  ELSE flagged
      one == <<"GET /user">>
      two == <<"GET /user", "GET /user/emails">>
  IN IF api.user.err # ErrNil THEN [err |-> api.user.err, info |-> info, calls |-> one]
     ELSE IF api.user.status # 200
       THEN [err |-> "GitHub API returned status " \o ToString(api.user.status),
             info |-> info, calls |-> one]
     ELSE IF info.Email # "" THEN [err |-> ErrNil, info |-> info, calls |-> one]
     ELSE IF api.emails.err # ErrNil THEN [err |-> api.emails.err, info |-> info, calls |-> two]
     ELSE IF api.emails.status = 200 /\ api.emails.decodes
       THEN [err |-> ErrNil, info |-> [info EXCEPT !.Email = fromList], calls |-> two]
     ELSE [err |-> ErrNil, info |-> info, calls |-> two]

\* a step of createOrGetOAuthUser / createOrGetGitHubUser ends the request
\* with err, or moves it on with the user it has got so far
OAuthFail(db, rq, err) == [db |-> db, rq |-> rq, err |-> err]
OAuthGoto(db, rq, pc, user) == [db |-> db, rq |-> [rq EXCEPT !.pc = pc, !.user = user], err |-> ErrNil]

createOrGetOAuthUserRelinks(db, rq, email, firstName, lastName, googleID, t) ==
  IF rq.pc = "byEmail" THEN
    LET r == GetUserByEmail(db, email)
    IN IF r.err = ErrNil THEN OAuthGoto(db, rq, "link", r.user)
       ELSE IF r.err # ErrNoRows THEN OAuthFail(db, rq, Wrap(ErrCheckUser, r.err))
       ELSE OAuthGoto(db, rq, "byProviderID", NoUser)
  ELSE IF rq.pc = "link" THEN
    LET r == UpdateUserGoogleID(db, rq.user.id, googleID, t)
    IN IF r.err # ErrNil THEN OAuthFail(db, rq, Wrap(ErrUpdateGoogleID, r.err))
       ELSE OAuthGoto(r.db, rq, "session", [rq.user EXCEPT !.googleID = ValidString(googleID)])
  ELSE IF rq.pc = "byProviderID" THEN
    LET r == GetUserByGoogleID(db, googleID)
    IN IF r.err = ErrNil THEN OAuthGoto(db, rq, "session", r.user)
       ELSE IF r.err # ErrNoRows THEN OAuthFail(db, rq, Wrap(ErrCheckGoogleID, r.err))
       ELSE OAuthGoto(db, rq, "insert", NoUser)
  ELSE
    LET r == InsertOAuthUser(db, email, firstName, lastName, ValidString(googleID), SqlNull, t)
    IN IF r.err # ErrNil THEN OAuthFail(db, rq, Wrap(ErrCreateUser, r.err))
       ELSE OAuthGoto(r.db, rq, "session", r.user)

\* createOrGetOAuthUser, one store round trip per step:
\* "byEmail" -> "link" | "byProviderID" -> "insert" -> "session"
createOrGetOAuthUser(db, rq, email, firstName, lastName, googleID, t) ==
  IF rq.pc = "byEmail" THEN
    LET r == GetUserByEmail(db, email)
    IN IF r.err = ErrNil
         THEN IF ~r.user.googleID.Valid \/ r.user.googleID.String = ""
                THEN OAuthGoto(db, rq, "link", r.user)
                ELSE OAuthGoto(db, rq, "session", r.user)
       ELSE IF r.err # ErrNoRows THEN OAuthFail(db, rq, Wrap(ErrCheckUser, r.err))
       ELSE OAuthGoto(db, rq, "byProviderID", NoUser)
  ELSE IF rq.pc = "link" THEN
    LET r == UpdateUserGoogleID(db, rq.user.id, googleID, t)
    IN IF r.err # ErrNil THEN OAuthFail(db, rq, Wrap(ErrUpdateGoogleID, r.err))
       ELSE OAuthGoto(r.db, rq, "session", [rq.user EXCEPT !.googleID = ValidString(googleID)])
  ELSE IF rq.pc = "byProviderID" THEN
    LET r == GetUserByGoogleID(db, googleID)
    IN IF r.err = ErrNil THEN OAuthGoto(db, rq, "session", r.user)
       ELSE IF r.err # ErrNoRows THEN OAuthFail(db, rq, Wrap(ErrCheckGoogleID, r.err))
       ELSE OAuthGoto(db, rq, "insert", NoUser)
  ELSE
    LET r == InsertOAuthUser(db, email, firstName, lastName, ValidString(googleID), SqlNull, t)
    IN IF r.err # ErrNil THEN OAuthFail(db, rq, Wrap(ErrCreateUser, r.err))
       ELSE OAuthGoto(r.db, rq, "session", r.user)

createOrGetGitHubUser(db, rq, email, name, login, githubID, t) ==
  LET githubIDStr == ToString(githubID)
      parts == splitName(name)
      firstName == IF name # <<>> THEN parts[1] ELSE login
      lastName == IF name # <<>> /\ Len(parts) > 1 THEN parts[2] ELSE <<>>
  IN
  IF rq.pc = "byEmail" THEN
    LET r == GetUserByEmail(db, email)
    IN IF r.err = ErrNil
         THEN IF ~r.user.githubID.Valid \/ r.user.githubID.String = ""
                THEN OAuthGoto(db, rq, "link", r.user)
                ELSE OAuthGoto(db, rq, "session", r.user)
       ELSE IF r.err # ErrNoRows THEN OAuthFail(db, rq, Wrap(ErrCheckUser, r.err))
       ELSE OAuthGoto(db, rq, "byProviderID", NoUser)
  ELSE IF rq.pc = "link" THEN
    LET r == UpdateUserGithubID(db, rq.user.id, githubIDStr, t)
    IN IF r.err # ErrNil THEN OAuthFail(db, rq, Wrap(ErrUpdateGithubID, r.err))
       ELSE OAuthGoto(r.db, rq, "session", [rq.user EXCEPT !.githubID = ValidString(githubIDStr)])
  ELSE IF rq.pc = "byProviderID" THEN
    LET r == GetUserByGithubID(db, githubIDStr)
    IN IF r.err = ErrNil THEN OAuthGoto(db, rq, "session", r.user)
       ELSE IF r.err # ErrNoRows THEN OAuthFail(db, rq, Wrap(ErrCheckGithubID, r.err))
       ELSE OAuthGoto(db, rq, "insert", NoUser)
  ELSE
    LET r == InsertOAuthUser(db, email, firstName, lastName, SqlNull, ValidString(githubIDStr), t)
    IN IF r.err # ErrNil THEN OAuthFail(db, rq, Wrap(ErrCreateUser, r.err))
       ELSE OAuthGoto(r.db, rq, "session", r.user)

\* the request after it has made the calls to the provider
Upstream(rq, calls) == [rq EXCEPT !.upstream = @ \o calls]

CallbackHeadKeepsCookies(rq) ==
  LET stateCookie == RequestCookie(rq.in.stateCookie)
  IN IF stateCookie.err # ErrNil THEN HTTPError(rq, ErrStateCookie, 400)
     ELSE IF rq.in.state # stateCookie.Value THEN HTTPError(rq, ErrInvalidState, 400)
     ELSE IF rq.in.code = "" THEN HTTPError(rq, ErrNoCode, 400)
     ELSE IF rq.in.exchange # ErrNil
       THEN HTTPError(Upstream(rq, <<"exchange">>), ErrExchange, 500)
     ELSE [Upstream(rq, <<"exchange">>) EXCEPT !.pc = "byEmail"]

CallbackHeadAnyState(rq) ==
  LET stateCookie == RequestCookie(rq.in.stateCookie)
      cleared == [rq EXCEPT !.out.cookies = @ \o <<ClearedOAuthCookie("oauth_state"),
                                                    ClearedOAuthCookie("oauth_redirect_uri")>>]
  IN IF stateCookie.err # ErrNil THEN HTTPError(rq, ErrStateCookie, 400)
     ELSE IF rq.in.code = "" THEN HTTPError(cleared, ErrNoCode, 400)
     ELSE IF rq.in.exchange # ErrNil
       THEN HTTPError(Upstream(cleared, <<"exchange">>), ErrExchange, 500)
     ELSE [Upstream(cleared, <<"exchange">>) EXCEPT !.pc = "byEmail"]

\* the head of both callbacks, up to the provider's answer: state check,
\* clearing of the transient cookies, code check, code exchange
CallbackHead(rq) ==
  LET stateCookie == RequestCookie(rq.in.stateCookie)
      cleared == [rq EXCEPT !.out.cookies = @ \o <<ClearedOAuthCookie("oauth_state"),
                                                    ClearedOAuthCookie("oauth_redirect_uri")>>]
  IN IF stateCookie.err # ErrNil THEN HTTPError(rq, ErrStateCookie, 400)
     ELSE IF rq.in.state # stateCookie.Value THEN HTTPError(rq, ErrInvalidState, 400)
     ELSE IF rq.in.code = "" THEN HTTPError(cleared, ErrNoCode, 400)
     ELSE IF rq.in.exchange # ErrNil
       THEN HTTPError(Upstream(cleared, <<"exchange">>), ErrExchange, 500)
     ELSE [Upstream(cleared, <<"exchange">>) EXCEPT !.pc = "byEmail"]

CallbackTailDefaultRedirect(db, rq, t) ==
  LET jwtToken == GenerateJWT(rq.user.id, rq.user.email, t)
      expiresAt == GetTokenExpiry(t)
      r == CreateSession(db, rq.user.id, jwtToken, expiresAt, t)
  IN IF r.err # ErrNil THEN [db |-> db, rq |-> HTTPError(rq, ErrSessionHTTP, 500)]
     ELSE [db |-> r.db,
           rq |-> Finish([rq EXCEPT !.out.cookies = Append(@, AuthCookie(jwtToken, expiresAt))],
                         ErrNil, [kind |-> "redirect", status |-> 307,
                                  to |-> DefaultRedirectURI, token |-> jwtToken])]

\* the tail of both callbacks: mint the token, persist the session, set the
\* auth cookie, redirect to the URI of the redirect cookie
CallbackTail(db, rq, t) ==
  LET jwtToken == GenerateJWT(rq.user.id, rq.user.email, t)
      expiresAt == GetTokenExpiry(t)
      r == CreateSession(db, rq.user.id, jwtToken, expiresAt, t)
      redirectCookie == RequestCookie(rq.in.redirectCookie)
      redirectURI == IF redirectCookie.err = ErrNil THEN redirectCookie.Value
                     ELSE DefaultRedirectURI
  IN IF r.err # ErrNil THEN [db |-> db, rq |-> HTTPError(rq, ErrSessionHTTP, 500)]
     ELSE [db |-> r.db,
           rq |-> Finish([rq EXCEPT !.out.cookies = Append(@, AuthCookie(jwtToken, expiresAt))],
                         ErrNil, [kind |-> "redirect", status |-> 307, to |-> redirectURI,
                                  token |-> jwtToken])]

\* the callback after createOrGet...User has made a step r
CallbackUser(db, rq, r) ==
  IF r.err # ErrNil THEN [db |-> db, rq |-> HTTPError(rq, ErrCreateGetUser, 500)]
  ELSE [db |-> r.db, rq |-> r.rq]

\* the user step of GoogleCallback: createOrGetOAuthUser on the profile
GoogleUser(db, rq, userInfo, t) ==
  CallbackUser(db, rq, createOrGetOAuthUser(db, rq, userInfo.Email, userInfo.GivenName,
                                            userInfo.FamilyName, userInfo.Id, t))

\* GoogleCallback once the head h of the callback has run
GoogleProfile(db, h, t) ==
  IF h.pc = "done" THEN [db |-> db, rq |-> h]
  ELSE IF h.in.userinfo.err # ErrNil
    THEN [db |-> db, rq |-> HTTPError(Upstream(h, <<"userinfo">>), ErrUserInfo, 500)]
  ELSE GoogleUser(db, Upstream(h, <<"userinfo">>), h.in.userinfo.body, t)

GoogleCallback(db, rq, t) ==
  IF rq.pc = "start" THEN GoogleProfile(db, CallbackHead(rq), t)
  ELSE IF rq.pc = "session" THEN CallbackTail(db, rq, t)
  ELSE GoogleUser(db, rq, rq.in.userinfo.body, t)

\* the user step of GitHubCallback: createOrGetGitHubUser on the profile
GitHubUser(db, rq, userInfo, t) ==
  CallbackUser(db, rq, createOrGetGitHubUser(db, rq, userInfo.Email, userInfo.Name,
                                             userInfo.Login, userInfo.ID, t))

\* GitHubCallback once the head h of the callback has run and GitHub has
\* answered u
GitHubProfile(db, h, u, t) ==
  IF h.pc = "done" THEN [db |-> db, rq |-> h]
  ELSE IF u.err # ErrNil THEN [db |-> db, rq |-> HTTPError(Upstream(h, u.calls), ErrUserInfo, 500)]
  ELSE GitHubUser(db, Upstream(h, u.calls), u.info, t)

GitHubCallback(db, rq, t) ==
  IF rq.pc = "start" THEN GitHubProfile(db, CallbackHead(rq), getGitHubUserInfo(rq.in.api), t)
  ELSE IF rq.pc = "session" THEN CallbackTail(db, rq, t)
  ELSE GitHubUser(db, rq, getGitHubUserInfo(rq.in.api).info, t)

\* ResponseWriterExtension.InterceptResponse, after the resolver has run:
\* a signup / login result carrying a token sets the cookie from the payload
InterceptResponse(rq, t) ==
  IF rq.in.w /\ rq.op \in {"signup", "login"} /\ rq.out.data.kind = "auth"
  THEN [rq EXCEPT !.out.cookies = Append(@, AuthCookie(rq.out.data.token, t + TokenTTLTicks))]
  ELSE rq

\* the handler the request is routed to
Handle(db, rq, t) ==
  CASE rq.op = "signup" -> Signup(db, rq, t)
    [] rq.op = "login" -> Login(db, rq, t)
    [] rq.op = "logout" -> Logout(db, rq, t)
    [] rq.op = "me" -> Me(db, rq, t)
    [] rq.op = "google" -> GoogleCallback(db, rq, t)
    [] rq.op = "github" -> GitHubCallback(db, rq, t)
    [] rq.op = "googleAuth" -> GoogleAuth(db, rq, t)
    [] rq.op = "githubAuth" -> GitHubAuth(db, rq, t)

\* the response of a handler that has returned passes the interceptor
Intercept(r, t) ==
  IF r.rq.pc = "done" THEN [db |-> r.db, rq |-> InterceptResponse(r.rq, t)] ELSE r

\* one store round trip of the request rq, at time t
Step(db, rq, t) == Intercept(Handle(db, rq, t), t)

\* the request served to completion with no other request in between
RECURSIVE RunFrom(_, _)
RunFrom(r, t) == IF r.rq.pc = "done" THEN r ELSE RunFrom(Step(r.db, r.rq, t), t)

Run(db, rq, t) == RunFrom([db |-> db, rq |-> rq], t)

\* ------------------------------------------------------------------ browser
\* The user agent of the OAuth handshakes: its jar of transient cookies, and
\* for each provider the handshake in progress (the state value and redirect
\* target its initiation issued).
NoJarCookie == [present |-> FALSE, value |-> "", expires |-> 0]
NoHandshake == [open |-> FALSE, state |-> "", redirect |-> ""]

\* the browser before any handshake: no transient cookie, no state minted, no
\* state accepted, no callback answered
NoBrowser ==
  [jar |-> [oauth_state |-> NoJarCookie, oauth_redirect_uri |-> NoJarCookie],
   stateSeq |-> 0, google |-> NoHandshake, github |-> NoHandshake,
   used |-> {}, last |-> [state |-> "", accepted |-> FALSE]]

\* the browser stores a Set-Cookie header c received at time t: a negative
\* MaxAge removes the cookie, a positive one keeps it for that many seconds
SetJarCookie(jar, c, t) ==
  IF c.Name \notin DOMAIN jar THEN jar
  ELSE IF c.MaxAge < 0 THEN [jar EXCEPT ![c.Name] = NoJarCookie]
  ELSE [jar EXCEPT ![c.Name] = [present |-> TRUE, value |-> c.Value,
                                expires |-> t + c.MaxAge * TicksPerSec]]

RECURSIVE ApplySetCookies(_, _, _)
ApplySetCookies(jar, cookies, t) ==
  IF cookies = <<>> THEN jar
  ELSE ApplySetCookies(SetJarCookie(jar, Head(cookies), t), Tail(cookies), t)

\* the Cookie header the browser sends at time t for a cookie of its jar
SentCookie(c, t) ==
  IF c.present /\ t < c.expires THEN [present |-> TRUE, value |-> c.value]
  ELSE [present |-> FALSE, value |-> ""]

\* the callback has got past its state check
PassedStateCheck(rq) == rq.out.err \notin {ErrStateCookie, ErrInvalidState}

\* the handshake a provider's initiation has opened in the browser
Opened(rq) ==
  [open |-> TRUE, state |-> rq.out.data.state,
   redirect |-> IF rq.in.redirect_uri = "" THEN DefaultRedirectURI ELSE rq.in.redirect_uri]

\* a handshake is over once a callback has accepted its state
Closed(h, rq) ==
  IF PassedStateCheck(rq) /\ h.state = rq.in.state THEN [h EXCEPT !.open = FALSE] ELSE h

\* the browser after it has received the response of rq at time t
AfterResponse(b, rq, t) ==
  LET jar == ApplySetCookies(b.jar, rq.out.cookies, t)
  IN IF rq.op = "googleAuth"
       THEN [b EXCEPT !.jar = jar, !.stateSeq = @ + 1, !.google = Opened(rq)]
     ELSE IF rq.op = "githubAuth"
       THEN [b EXCEPT !.jar = jar, !.stateSeq = @ + 1, !.github = Opened(rq)]
     ELSE [b EXCEPT !.jar = jar, !.google = Closed(@, rq), !.github = Closed(@, rq),
                    !.used = IF PassedStateCheck(rq) THEN @ \cup {rq.in.state} ELSE @,
                    !.last = [state |-> rq.in.state, accepted |-> PassedStateCheck(rq)]]

\* ---------------------------------------------------------------- questions
\* Texts the store matches with LIKE (titles, search strings) are sequences of
\* characters; column names, difficulties and topics are atoms.  The text of
\* a statement is kept as the sequence of the pieces it is concatenated from.

\* a row of public.questions
Difficulties == <<"Easy", "Hard", "Medium">>
Titles == <<<<"T", "w", "o">>, <<"1", "0", "%">>, <<"s", "u", "m">>>>
TopicSets == <<{"array"}, {"array", "graph"}, {}>>
Question(i) ==
  [ID |-> i, Title |-> Titles[(i % 3) + 1], Difficulty |-> Difficulties[(i % 3) + 1],
   Topics |-> TopicSets[(i % 3) + 1], TestCaseCount |-> i]
\* the table with rows 1..n
Catalog(n) == [i \in 1..n |-> Question(i)]

\* fmt.Sprintf("%d", n) for n >= 0
RECURSIVE Digits(_)
Digits(n) ==
  IF n < 10 THEN <<ToString(n)>> ELSE Digits(n \div 10) \o <<ToString(n % 10)>>

\* "$%d"
Placeholder(n) == "$" \o ToString(n)

\* ILIKE folds the case of both sides
Lower(c) == IF c = "T" THEN "t" ELSE IF c = "S" THEN "s" ELSE c
LowerAll(s) == [i \in 1..Len(s) |-> Lower(s[i])]

\* text LIKE pattern: % stands for any run of characters, _ for one
RECURSIVE Like(_, _)
Like(text, pattern) ==
  IF pattern = <<>> THEN text = <<>>
  ELSE IF Head(pattern) = "%"
       THEN Like(text, Tail(pattern)) \/ (text # <<>> /\ Like(Tail(text), pattern))
       ELSE /\ text # <<>>
            /\ Head(pattern) = "_" \/ Head(pattern) = Head(text)
            /\ Like(Tail(text), Tail(pattern))
ILike(text, pattern) == Like(LowerAll(text), LowerAll(pattern))

\* strings.Join(conditions, sep) over pieces
RECURSIVE JoinWith(_, _)
JoinWith(parts, sep) ==
  IF parts = <<>> THEN <<>>
  ELSE IF Len(parts) = 1 THEN parts[1]
  ELSE parts[1] \o <<sep>> \o JoinWith(Tail(parts), sep)

OrderByAnyColumn(sortBy) == IF ~sortBy.isNil /\ sortBy.val # "" THEN sortBy.val ELSE "id"

\* the ORDER BY column: sortBy when it is one of the two allowed columns
OrderBy(sortBy) ==
  IF ~sortBy.isNil /\ sortBy.val # "" /\ (sortBy.val = "id" \/ sortBy.val = "difficulty")
  THEN sortBy.val ELSE "id"

\* the ORDER BY direction: sortOrder when it is one of the two allowed words
OrderDir(sortOrder) ==
  IF ~sortOrder.isNil /\ sortOrder.val # "" /\ (sortOrder.val = "ASC" \/ sortOrder.val = "DESC")
  THEN sortOrder.val ELSE "ASC"

\* GetQuestionsQueryWithArgs: the statement and its arguments
GetQuestionsQueryWithArgs(offset, limit, search, difficulty, topics, sortBy, sortOrder) ==
  LET bySearch == ~search.isNil /\ search.val # <<>>
      byDifficulty == ~difficulty.isNil /\ difficulty.val # ""
      byTopics == topics # {}
      iDifficulty == IF bySearch THEN 3 ELSE 1
      iTopics == iDifficulty + (IF byDifficulty THEN 1 ELSE 0)
      argIndex == iTopics + (IF byTopics THEN 1 ELSE 0)
      conditions ==
        (IF bySearch
         THEN <<<<"(title ILIKE ", Placeholder(1), " OR CAST(id AS TEXT) LIKE ",
                  Placeholder(2), ")">>>>
         ELSE <<>>)
        \o (IF byDifficulty THEN <<<<"difficulty = ", Placeholder(iDifficulty)>>>> ELSE <<>>)
        \o (IF byTopics THEN <<<<"topics && ", Placeholder(iTopics)>>>> ELSE <<>>)
      args ==
        (IF bySearch THEN <<<<"%">> \o search.val \o <<"%">>, search.val \o <<"%">>>> ELSE <<>>)
        \o (IF byDifficulty THEN <<difficulty.val>> ELSE <<>>)
        \o (IF byTopics THEN <<topics>> ELSE <<>>)
  IN [query |-> <<"SELECT id, title, slug, description, difficulty, topics, test_case_count FROM public.questions">>
                \o (IF conditions # <<>> THEN <<" WHERE ">> \o JoinWith(conditions, " AND ") ELSE <<>>)
                \o <<" ORDER BY ", OrderBy(sortBy), " ", OrderDir(sortOrder)>>
                \o <<" LIMIT ", Placeholder(argIndex), " OFFSET ", Placeholder(argIndex + 1)>>,
      args |-> args \o <<limit, offset>>]

\* ---- the store's side: public.questions answering a SELECT
ErrUndefinedColumn == "pq: column does not exist"
ErrNegativeLimit == "pq: LIMIT must not be negative"
ErrNegativeOffset == "pq: OFFSET must not be negative"

\* the argument bound to the placeholder that follows piece i of the text
BoundAfter(query, args, i) ==
  args[CHOOSE k \in 1..Len(args) : query[i + 1] = Placeholder(k)]
\* the place of a piece in the text (0: not there)
PieceAt(query, piece) ==
  IF \E i \in 1..Len(query) : query[i] = piece
  THEN CHOOSE i \in 1..Len(query) : query[i] = piece
  ELSE 0

\* the WHERE clause of the statement, on one row
Selected(q, query, args) ==
  /\ PieceAt(query, "(title ILIKE ") # 0 =>
       \/ ILike(q.Title, BoundAfter(query, args, PieceAt(query, "(title ILIKE ")))
       \/ Like(Digits(q.ID),
               BoundAfter(query, args, PieceAt(query, " OR CAST(id AS TEXT) LIKE ")))
  /\ PieceAt(query, "difficulty = ") # 0 =>
       q.Difficulty = BoundAfter(query, args, PieceAt(query, "difficulty = "))
  /\ PieceAt(query, "topics && ") # 0 =>
       q.Topics \cap BoundAfter(query, args, PieceAt(query, "topics && ")) # {}

Reverse(s) == [i \in 1..Len(s) |-> s[Len(s) + 1 - i]]

\* rows with the same difficulty come in an order the store is free to choose:
\* ties names one of two such orders (by id, upwards or downwards)
RECURSIVE ByDifficulty(_, _)
ByDifficulty(rows, order) ==
  IF order = <<>> THEN <<>>
  ELSE SelectSeq(rows, LAMBDA q : q.Difficulty = Head(order)) \o ByDifficulty(rows, Tail(order))

Ordered(rows, column, direction, ties) ==
  IF column = "id" THEN (IF direction = "ASC" THEN rows ELSE Reverse(rows))
  ELSE ByDifficulty(IF ties = "ASC" THEN rows ELSE Reverse(rows),
                    IF direction = "ASC" THEN Difficulties ELSE Reverse(Difficulties))

\* db.Query on public.questions: the rows the statement selects, ordered, from
\* OFFSET on, at most LIMIT of them
QueryQuestions(table, down, query, args, ties) ==
  LET column == query[PieceAt(query, " ORDER BY ") + 1]
      direction == query[PieceAt(query, " ORDER BY ") + 3]
      limit == BoundAfter(query, args, PieceAt(query, " LIMIT "))
      offset == BoundAfter(query, args, PieceAt(query, " OFFSET "))
      rows == Ordered(SelectSeq(table, LAMBDA q : Selected(q, query, args)),
                      column, direction, ties)
  IN IF down THEN [err |-> ErrConnection, rows |-> <<>>]
     ELSE IF column \notin {"id", "difficulty"} \/ direction \notin {"ASC", "DESC"}
     THEN [err |-> ErrUndefinedColumn, rows |-> <<>>]
     ELSE IF limit < 0 THEN [err |-> ErrNegativeLimit, rows |-> <<>>]
     ELSE IF offset < 0 THEN [err |-> ErrNegativeOffset, rows |-> <<>>]
     ELSE [err |-> ErrNil,
           rows |-> SubSeq(rows, offset + 1,
                           IF offset + limit < Len(rows) THEN offset + limit ELSE Len(rows))]

\* ---- the controller
\* the page size GetQuestions works with
EffectiveLimit(limit) ==
  LET given == IF limit.isNil THEN 25 ELSE limit.val
      positive == IF given <= 0 THEN 25 ELSE given
  IN IF positive > 100 THEN 100 ELSE positive

\* the offset GetQuestions works with
EffectiveOffset(offset) ==
  LET given == IF offset.isNil THEN 0 ELSE offset.val
  IN IF given < 0 THEN 0 ELSE given

\* database.Question to model.Question: the id becomes its decimal text
ModelQuestion(q) ==
  [ID |-> Digits(q.ID), Title |-> q.Title, Difficulty |-> q.Difficulty, Topics |-> q.Topics,
   TestCaseCount |-> q.TestCaseCount]

NoQuestionsResponse == [Questions |-> <<>>, TotalCount |-> 0, HasMore |-> FALSE]

\* the statement GetQuestions sends for an input, asking for `fetch` rows
QuestionsStatement(input, fetch) ==
  GetQuestionsQueryWithArgs(EffectiveOffset(input.Offset), fetch, input.Search,
                            input.Difficulty, input.Topics, input.SortBy, input.SortOrder)

\* the rest of GetQuestions, given the statement sent and the store's answer
QuestionsPage(input, stmt, res) ==
  [input |-> input, stmt |-> stmt,
   err |-> IF res.err = ErrNil THEN ErrNil ELSE Wrap("failed to query questions", res.err),
   out |-> IF res.err # ErrNil THEN NoQuestionsResponse
           ELSE LET limit == EffectiveLimit(input.Limit)
                    hasMore == Len(res.rows) > limit
                    page == IF hasMore THEN SubSeq(res.rows, 1, limit) ELSE res.rows
                IN [Questions |-> [i \in 1..Len(page) |-> ModelQuestion(page[i])],
                    TotalCount |-> Len(page), HasMore |-> hasMore]]

GetQuestionsNoExtraRow(table, down, input, ties) ==
  LET stmt == QuestionsStatement(input, EffectiveLimit(input.Limit))
  IN QuestionsPage(input, stmt, QueryQuestions(table, down, stmt.query, stmt.args, ties))

\* pcdGraphQLControllerImpl.GetQuestions: one row more than the page is asked
\* for, to learn whether more rows follow
GetQuestions(table, down, input, ties) ==
  LET stmt == QuestionsStatement(input, EffectiveLimit(input.Limit) + 1)
  IN QuestionsPage(input, stmt, QueryQuestions(table, down, stmt.query, stmt.args, ties))

\* no GetQuestions request served yet
NoListing ==
  [input |-> [Offset |-> NilPtr, Limit |-> NilPtr, Search |-> NilPtr, Difficulty |-> NilPtr,
              Topics |-> {}, SortBy |-> NilPtr, SortOrder |-> NilPtr],
   stmt |-> [query |-> <<>>, args |-> <<>>], err |-> ErrNil, out |-> NoQuestionsResponse]

\* ------------------------------------------------------------ specification
Init ==
  /\ users = {}
  /\ sessions = {}
  /\ sessSeq = 0
  /\ dbDown = FALSE
  /\ now = 0
  /\ resp = [op |-> "none", err |-> ErrNil, cookie |-> NoCookie, w |-> TRUE]
  /\ issued = {}
  /\ signedUp = {}
  /\ reqs = <<>>
  /\ browser = NoBrowser
  /\ questions = <<>>
  /\ listing = NoListing

\* the instants the clock is observed at: the first ticks, and the first ticks
\* after the lifetime of a token minted at time 0
ClockPoints == (0..MaxSkew) \cup {TokenTTLTicks}

\* inputs of the mutations
NameInputs == {<<Ptr(<<"A", "d", "a">>), NilPtr>>}

\* tokens a client can present that the server never issued: one signed with
\* another key, and two signed with the secret of the source tree, for a user
\* id no row has (ids start at 1) and for a userId that is no UUID
ForgedTokens ==
  {[GenerateJWT(1, "a@x.com", now) EXCEPT !.sig = "attacker-key"],
   GenerateJWT(0, "a@x.com", now),
   [GenerateJWT(0, "a@x.com", now) EXCEPT !.claims.userId = BadUUIDString]}

CookieInputs == {NoCookie, GarbageToken} \cup issued \cup ForgedTokens

\* the store after a step
Commit(db) ==
  /\ db.sessSeq <= MaxSessions
  /\ Cardinality(db.users) <= MaxUsers
  /\ users' = db.users
  /\ sessions' = db.sessions
  /\ sessSeq' = db.sessSeq

\* what the clients have learnt: passwords chosen at signup, tokens received
Observe(db, rq) ==
  /\ signedUp' = IF rq.op = "signup"
                 THEN signedUp \cup {[email |-> u.email, password |-> rq.in.password] :
                                       u \in db.users \ users}
                 ELSE signedUp
  /\ issued' = IF rq.pc = "done" /\ rq.out.data.kind \in {"auth", "redirect"}
               THEN issued \cup {rq.out.data.token}
               ELSE issued

\* the last completed request as the client saw it: the operation, the error
\* returned, the auth_token cookie the request carried, whether the request
\* context held a ResponseWriter
Respond(rq) ==
  resp' = [op |-> rq.op, err |-> rq.out.err, cookie |-> rq.in.cookie, w |-> rq.in.w]

\* the outcome r of a request is committed and observed
Served(r) ==
  /\ Commit(r.db)
  /\ Observe(r.db, r.rq)
  /\ Respond(r.rq)
  /\ UNCHANGED <<dbDown, now, reqs, browser, questions, listing>>

\* a request served from start to end
Serve(op, in) == Served(Run(DB, NewReq(op, in), now))

\* the server of main.go puts the ResponseWriter into every request context
SignupReq ==
  \E email \in Emails, password \in Passwords, names \in NameInputs :
    Serve("signup", [email |-> email, password |-> password, firstName |-> names[1],
                     lastName |-> names[2], w |-> TRUE, cookie |-> NoCookie])

LoginReq ==
  \E email \in Emails, password \in Passwords :
    Serve("login", [email |-> email, password |-> password, w |-> TRUE, cookie |-> NoCookie])

LogoutReq == \E cookie \in CookieInputs : Serve("logout", [w |-> TRUE, cookie |-> cookie])

MeReq == \E cookie \in CookieInputs : Serve("me", [w |-> TRUE, cookie |-> cookie])

Tick ==
  /\ \E t \in ClockPoints : t > now /\ now' = t
  /\ UNCHANGED <<users, sessions, sessSeq, dbDown, resp, issued, signedUp, reqs, browser,
                 questions, listing>>

Next == SignupReq \/ LoginReq \/ LogoutReq \/ MeReq \/ Tick

Spec == Init /\ [][Next]_vars

\* ---------------------------------------------- requests served concurrently
\* The requests in flight overlap within one reading of the clock.
\* what the providers answer in the callbacks that run concurrently
GoogleProfiles ==
  {[Email |-> "a@x.com", GivenName |-> <<"A", "d", "a">>, FamilyName |-> <<>>, Id |-> "g-1"]}

GitHubProfiles ==
  {[ID |-> 7, Login |-> <<"a", "d", "a">>, Name |-> <<"A", " ", "L">>, Email |-> "a@x.com"]}

\* a callback request that passes the state check and the code exchange
CallbackInput ==
  [stateCookie |-> [present |-> TRUE, value |-> "s1"], state |-> "s1",
   redirectCookie |-> [present |-> FALSE, value |-> ""], code |-> "c1",
   exchange |-> ErrNil, w |-> TRUE, cookie |-> NoCookie]

GoogleInput(profile) ==
  [f \in DOMAIN CallbackInput \cup {"userinfo"} |->
     IF f = "userinfo" THEN [err |-> ErrNil, body |-> profile] ELSE CallbackInput[f]]

GitHubInput(profile) ==
  [f \in DOMAIN CallbackInput \cup {"api"} |->
     IF f = "api"
     THEN [user |-> [err |-> ErrNil, status |-> 200, body |-> profile],
           emails |-> [err |-> ErrNil, status |-> 200, decodes |-> TRUE, body |-> <<>>]]
     ELSE CallbackInput[f]]

\* a request enters its handler
Start(op, in) ==
  /\ Len(reqs) < MaxInflight
  /\ reqs' = Append(reqs, NewReq(op, in))
  /\ UNCHANGED <<users, sessions, sessSeq, dbDown, now, resp, issued, signedUp, browser,
                 questions, listing>>

StartSignup ==
  \E email \in Emails, password \in {"pw1"}, names \in NameInputs :
    Start("signup", [email |-> email, password |-> password, firstName |-> names[1],
                     lastName |-> names[2], w |-> TRUE, cookie |-> NoCookie])

StartGoogleCallback == \E profile \in GoogleProfiles : Start("google", GoogleInput(profile))

StartGitHubCallback == \E profile \in GitHubProfiles : Start("github", GitHubInput(profile))

\* the request in flight at position i has made the round trip r
Stepped(i, r) ==
  /\ Commit(r.db)
  /\ Observe(r.db, r.rq)
  /\ IF r.rq.pc = "done"
     THEN /\ Respond(r.rq)
          /\ reqs' = SubSeq(reqs, 1, i - 1) \o SubSeq(reqs, i + 1, Len(reqs))
     ELSE /\ reqs' = [reqs EXCEPT ![i] = r.rq]
          /\ UNCHANGED resp
  /\ UNCHANGED <<dbDown, now, browser, questions, listing>>

\* a request in flight makes its next store round trip; a request that has
\* returned leaves
StepReq == \E i \in 1..Len(reqs) : Stepped(i, Step(DB, reqs[i], now))

NextConc == StartSignup \/ StartGoogleCallback \/ StartGitHubCallback \/ StepReq

SpecConc == Init /\ [][NextConc]_vars

\* ------------------------------------------- requests served under faults
\* The store becomes unreachable and comes back; a request context may hold
\* no ResponseWriter.
StoreFails ==
  /\ ~dbDown
  /\ dbDown' = TRUE
  /\ UNCHANGED <<users, sessions, sessSeq, now, resp, issued, signedUp, reqs, browser,
                 questions, listing>>

StoreRecovers ==
  /\ dbDown
  /\ dbDown' = FALSE
  /\ UNCHANGED <<users, sessions, sessSeq, now, resp, issued, signedUp, reqs, browser,
                 questions, listing>>

FaultCookieInputs == {NoCookie, GarbageToken} \cup issued

FaultSignupReq ==
  \E email \in Emails, names \in NameInputs, w \in BOOLEAN :
    Serve("signup", [email |-> email, password |-> "pw1", firstName |-> names[1],
                     lastName |-> names[2], w |-> w, cookie |-> NoCookie])

FaultLoginReq ==
  \E email \in Emails, password \in Passwords, w \in BOOLEAN :
    Serve("login", [email |-> email, password |-> password, w |-> w, cookie |-> NoCookie])

FaultLogoutReq ==
  \E cookie \in FaultCookieInputs, w \in BOOLEAN : Serve("logout", [w |-> w, cookie |-> cookie])

NextFault ==
  FaultSignupReq \/ FaultLoginReq \/ FaultLogoutReq \/ StoreFails \/ StoreRecovers \/ Tick

SpecFault == Init /\ [][NextFault]_vars

\* ------------------------------------------------ OAuth handshakes of a browser
\* One browser runs the handshakes of both providers against the server; the
\* providers answer the server's calls.
\* handshakes the browser starts: as many as there are providers
MaxHandshakes == Cardinality({"google", "github"})

\* the n-th value crypto/rand yields: no two reads yield the same value
StateValue(n) == "st" \o ToString(n)

RedirectInputs == {"", "http://localhost:3000/play"}

\* the state parameters a callback request can carry: none, one the server
\* never minted, the ones it has minted
StateParams == {"", "forged"} \cup {StateValue(n) : n \in 1..browser.stateSeq}

\* what Google's userinfo endpoint answers
GoogleAnswers ==
  {[err |-> ErrNil, body |-> profile] : profile \in GoogleProfiles}
  \cup {[err |-> "googleapi: got HTTP response code 401", body |-> <<>>]}

\* what GitHub's /user and /user/emails endpoints answer
EmailsListed ==
  [err |-> ErrNil, status |-> 200, decodes |-> TRUE,
   body |-> <<[Email |-> "b@x.com", Primary |-> TRUE]>>]

GitHubAnswers ==
  {[user |-> [err |-> ErrNil, status |-> 200, body |-> profile], emails |-> EmailsListed] :
     profile \in GitHubProfiles}
  \cup {[user |-> [err |-> ErrNil, status |-> 200, body |-> [profile EXCEPT !.Email = ""]],
         emails |-> emails] :
          profile \in GitHubProfiles,
          emails \in {EmailsListed,
                      [err |-> ErrNil, status |-> 403, decodes |-> FALSE, body |-> <<>>],
                      [err |-> "Get https://api.github.com/user/emails: EOF", status |-> 0,
                       decodes |-> FALSE, body |-> <<>>]}}
  \cup {[user |-> [err |-> ErrNil, status |-> 401, body |-> <<>>], emails |-> EmailsListed],
        [user |-> [err |-> "Get https://api.github.com/user: EOF", status |-> 0, body |-> <<>>],
         emails |-> EmailsListed]}

\* how far the provider lets a callback get: no code in the redirect, the
\* code exchange refused, or the exchange done and the profile calls answered
ProviderOutcomes(field, answers, plain) ==
  {[f \in {"code", "exchange", field} |->
      IF f = "code" THEN o[1][1] ELSE IF f = "exchange" THEN o[1][2] ELSE o[2]] :
     o \in ({<<"", ErrNil>>, <<"c1", "oauth2: cannot fetch token">>}
              \X {plain})
           \cup ({<<"c1", ErrNil>>} \X answers)}

\* the outcome r of a request of the browser is committed and observed, and
\* the browser applies the response's cookies
ServedBrowser(r) ==
  /\ Commit(r.db)
  /\ Observe(r.db, r.rq)
  /\ Respond(r.rq)
  /\ browser' = AfterResponse(browser, r.rq, now)
  /\ UNCHANGED <<dbDown, now, reqs, questions, listing>>

ServeBrowser(op, in) == ServedBrowser(Run(DB, NewReq(op, in), now))

\* GET /auth/google and GET /auth/github
InitiateInput(redirect) ==
  [rand |-> StateValue(browser.stateSeq + 1), redirect_uri |-> redirect, w |-> TRUE,
   cookie |-> NoCookie]

GoogleAuthReq ==
  /\ browser.stateSeq < MaxHandshakes
  /\ \E redirect \in RedirectInputs : ServeBrowser("googleAuth", InitiateInput(redirect))

GitHubAuthReq ==
  /\ browser.stateSeq < MaxHandshakes
  /\ \E redirect \in RedirectInputs : ServeBrowser("githubAuth", InitiateInput(redirect))

\* the callback request the browser sends: its transient cookies, the state
\* of the provider's redirect, and what the provider does with the callback
BrowserCallback(state, outcome) ==
  [f \in DOMAIN outcome \cup {"stateCookie", "state", "redirectCookie", "w", "cookie"} |->
     CASE f = "stateCookie" -> SentCookie(browser.jar.oauth_state, now)
       [] f = "state" -> state
       [] f = "redirectCookie" -> SentCookie(browser.jar.oauth_redirect_uri, now)
       [] f = "w" -> TRUE
       [] f = "cookie" -> NoCookie
       [] OTHER -> outcome[f]]

GoogleOutcomes ==
  ProviderOutcomes("userinfo", GoogleAnswers, CHOOSE a \in GoogleAnswers : a.err = ErrNil)

GitHubOutcomes ==
  ProviderOutcomes("api", GitHubAnswers,
                   CHOOSE a \in GitHubAnswers : a.user.status = 200 /\ a.user.body.Email # "")

GoogleCallbackReq ==
  \E state \in StateParams \ {""}, outcome \in GoogleOutcomes :
    ServeBrowser("google", BrowserCallback(state, outcome))

GitHubCallbackReq ==
  \E state \in StateParams \ {""}, outcome \in GitHubOutcomes :
    ServeBrowser("github", BrowserCallback(state, outcome))

\* a password account signs up from the same browser
BrowserSignupReq ==
  \E email \in {"a@x.com"}, names \in NameInputs :
    Serve("signup", [email |-> email, password |-> "pw1", firstName |-> names[1],
                     lastName |-> names[2], w |-> TRUE, cookie |-> NoCookie])

\* the handshakes of one browser session overlap within one reading of the
\* clock
NextOAuth ==
  \/ GoogleAuthReq \/ GitHubAuthReq \/ GoogleCallbackReq \/ GitHubCallbackReq
  \/ BrowserSignupReq

SpecOAuth == Init /\ [][NextOAuth]_vars

\* ------------------------------------------- a Logout racing with a Login
\* After signups served one after the other, one Logout and one Login are in
\* flight together; a request that has returned stays in reqs with its
\* response.
HasReq(op) == \E i \in 1..Len(reqs) : reqs[i].op = op

RaceSignup ==
  /\ reqs = <<>>
  /\ \E email \in Emails, names \in NameInputs :
       Serve("signup", [email |-> email, password |-> "pw1", firstName |-> names[1],
                        lastName |-> names[2], w |-> TRUE, cookie |-> NoCookie])

RaceLogout ==
  /\ ~HasReq("logout")
  /\ \E cookie \in issued : Start("logout", [w |-> TRUE, cookie |-> cookie])

RaceLogin ==
  /\ ~HasReq("login")
  /\ \E c \in signedUp :
       Start("login", [email |-> c.email, password |-> c.password, w |-> TRUE,
                       cookie |-> NoCookie])

\* the request at position i has made the round trip r
RaceStepped(i, r) ==
  /\ Commit(r.db)
  /\ Observe(r.db, r.rq)
  /\ IF r.rq.pc = "done" THEN Respond(r.rq) ELSE UNCHANGED resp
  /\ reqs' = [reqs EXCEPT ![i] = r.rq]
  /\ UNCHANGED <<dbDown, now, browser, questions, listing>>

RaceStep ==
  \E i \in 1..Len(reqs) : reqs[i].pc # "done" /\ RaceStepped(i, Step(DB, reqs[i], now))

NextRace == RaceSignup \/ RaceLogout \/ RaceLogin \/ RaceStep \/ Tick

SpecRace == Init /\ [][NextRace]_vars

\* ------------------------------------------- pages of the question table
\* GetQuestions is served over a question table of a given size, with the
\* store reachable or not.
RowCounts == {0, 10, 11, 101}

InitQuestions ==
  /\ users = {}
  /\ sessions = {}
  /\ sessSeq = 0
  /\ dbDown = FALSE
  /\ now = 0
  /\ resp = [op |-> "none", err |-> ErrNil, cookie |-> NoCookie, w |-> TRUE]
  /\ issued = {}
  /\ signedUp = {}
  /\ reqs = <<>>
  /\ browser = NoBrowser
  /\ \E n \in RowCounts : questions = Catalog(n)
  /\ listing = NoListing

\* *int and *string fields of model.GetQuestionsRequest
LimitInputs == {NilPtr} \cup {Ptr(n) : n \in {0, 10, 101}}
OffsetInputs == {NilPtr} \cup {Ptr(n) : n \in {-1, 1}}
FilterInputs ==
  {[Search |-> NilPtr, Difficulty |-> NilPtr, Topics |-> {}],
   [Search |-> Ptr(<<>>), Difficulty |-> Ptr(""), Topics |-> {}],
   [Search |-> Ptr(<<"1">>), Difficulty |-> NilPtr, Topics |-> {}],
   [Search |-> Ptr(<<"S", "U">>), Difficulty |-> Ptr("Medium"), Topics |-> {"array", "tree"}]}
SortByInputs == {NilPtr} \cup {Ptr(s) : s \in {"", "id", "difficulty", "dangerous"}}
SortOrderInputs == {NilPtr} \cup {Ptr(s) : s \in {"", "ASC", "DESC", "desc"}}

\* a GetQuestions request served
ServeQuestions(input, ties) ==
  /\ listing' = GetQuestions(questions, dbDown, input, ties)
  /\ UNCHANGED <<users, sessions, sessSeq, dbDown, now, resp, issued, signedUp, reqs, browser,
                 questions>>

\* a page asked for in the default order
GetQuestionsPageReq ==
  \E limit \in LimitInputs, offset \in OffsetInputs, f \in FilterInputs :
    ServeQuestions([Offset |-> offset, Limit |-> limit, Search |-> f.Search,
                    Difficulty |-> f.Difficulty, Topics |-> f.Topics, SortBy |-> NilPtr,
                    SortOrder |-> NilPtr], "ASC")

\* the first page asked for in a given order
GetQuestionsSortedReq ==
  \E sortBy \in SortByInputs, sortOrder \in SortOrderInputs, ties \in {"ASC", "DESC"} :
    ServeQuestions([Offset |-> NilPtr, Limit |-> NilPtr, Search |-> NilPtr,
                    Difficulty |-> NilPtr, Topics |-> {}, SortBy |-> sortBy,
                    SortOrder |-> sortOrder], ties)

NextQuestions == GetQuestionsPageReq \/ GetQuestionsSortedReq \/ StoreFails \/ StoreRecovers

SpecQuestions == InitQuestions /\ [][NextQuestions]_vars

\* ------------------------------------------------ every operation on accounts
\* Password requests, OAuth requests and the session maintenance calls of
\* the database package, served one after the other as the clock advances.
AccountSignupReq ==
  \E email \in Emails, names \in NameInputs :
    Serve("signup", [email |-> email, password |-> "pw1", firstName |-> names[1],
                     lastName |-> names[2], w |-> TRUE, cookie |-> NoCookie])

AccountLoginReq ==
  \E c \in signedUp :
    Serve("login", [email |-> c.email, password |-> c.password, w |-> TRUE,
                    cookie |-> NoCookie])

AccountLogoutReq == \E cookie \in issued : Serve("logout", [w |-> TRUE, cookie |-> cookie])

AccountMeReq ==
  \E cookie \in issued \cup {NoCookie} : Serve("me", [w |-> TRUE, cookie |-> cookie])

\* GET /auth/google, GET /auth/github
AccountInitiateReq ==
  \E op \in {"googleAuth", "githubAuth"}, redirect \in RedirectInputs :
    Serve(op, InitiateInput(redirect))

\* a callback that passes the state check, with whatever the provider answers
AccountCallback(outcome) ==
  [BrowserCallback("forged", outcome) EXCEPT !.stateCookie = [present |-> TRUE,
                                                               value |-> "forged"]]

AccountGoogleCallbackReq ==
  \E outcome \in GoogleOutcomes : Serve("google", AccountCallback(outcome))

AccountGitHubCallbackReq ==
  \E outcome \in GitHubOutcomes : Serve("github", AccountCallback(outcome))

\* a call of the database package that answers no request
Maintained(r) ==
  /\ Commit(r.db)
  /\ UNCHANGED <<dbDown, now, resp, issued, signedUp, reqs, browser, questions, listing>>

DeleteUserSessionsCall == \E u \in users : Maintained(DeleteUserSessions(DB, u.id))

CleanExpiredSessionsCall == Maintained(CleanExpiredSessions(DB, now))

\* the clock passes the lifetime of the sessions created so far
SessionsExpire ==
  /\ now <= TokenTTLTicks
  /\ now' = now + TokenTTLTicks + 1
  /\ UNCHANGED <<users, sessions, sessSeq, dbDown, resp, issued, signedUp, reqs, browser,
                 questions, listing>>

NextAccounts ==
  \/ AccountSignupReq \/ AccountLoginReq \/ AccountLogoutReq \/ AccountMeReq
  \/ AccountInitiateReq \/ AccountGoogleCallbackReq \/ AccountGitHubCallbackReq
  \/ DeleteUserSessionsCall \/ CleanExpiredSessionsCall \/ SessionsExpire

SpecAccounts == Init /\ [][NextAccounts]_vars

\* ------------------------------------------- GitHub identities resolved
\* GitHub callbacks that pass the state check and the code exchange, for
\* every shape of display name and of the /user/emails answer, next to
\* password signups.
\* display names: none, one word, two words, three words between runs of
\* blanks and tabs, blanks only
DisplayNames ==
  {<<>>, <<"A", "d", "a">>, <<"A", " ", "L">>,
   <<" ", "A", "\t", " ", "L", " ", "B", " ">>, <<" ", " ">>}

\* GET /user/emails answered with the list body
EmailList(body) == [err |-> ErrNil, status |-> 200, decodes |-> TRUE, body |-> body]

\* the public email of the profile with the list /user/emails would give: a
\* public email; none and one primary entry; none and the primary entry
\* behind another one and before a second primary one; none and no primary
\* entry
EmailAnswers ==
  {<<"a@x.com", EmailList(<<[Email |-> "b@x.com", Primary |-> TRUE]>>)>>,
   <<"", EmailList(<<[Email |-> "b@x.com", Primary |-> TRUE]>>)>>,
   <<"", EmailList(<<[Email |-> "c@x.com", Primary |-> FALSE],
                     [Email |-> "b@x.com", Primary |-> TRUE],
                     [Email |-> "a@x.com", Primary |-> TRUE]>>)>>,
   <<"", EmailList(<<[Email |-> "c@x.com", Primary |-> FALSE],
                     [Email |-> "a@x.com", Primary |-> FALSE]>>)>>}

\* what GitHub answers for the account id with display name name
IdentityAnswers ==
  {[user |-> [err |-> ErrNil, status |-> 200,
              body |-> [ID |-> id, Login |-> <<"a", "d", "a">>, Name |-> name,
                        Email |-> e[1]]],
    emails |-> e[2]] : id \in {7, 8}, name \in DisplayNames, e \in EmailAnswers}

IdentityRequests ==
  {AccountCallback([code |-> "c1", exchange |-> ErrNil, api |-> a]) : a \in IdentityAnswers}

GitHubIdentityReq == \E in \in IdentityRequests : Serve("github", in)

NextGitHub == GitHubIdentityReq \/ AccountSignupReq

SpecGitHub == Init /\ [][NextGitHub]_vars

\* ------------------------------------- the store lost in the middle of a request
\* One Signup or Login at a time makes its store round trips one by one
\* while the store becomes unreachable and comes back between them.
OutageSignup ==
  /\ reqs = <<>>
  /\ \E email \in Emails, names \in NameInputs :
       Start("signup", [email |-> email, password |-> "pw1", firstName |-> names[1],
                        lastName |-> names[2], w |-> TRUE, cookie |-> NoCookie])

OutageLogin ==
  /\ reqs = <<>>
  /\ \E email \in Emails, password \in Passwords :
       Start("login", [email |-> email, password |-> password, w |-> TRUE,
                       cookie |-> NoCookie])

NextOutage == OutageSignup \/ OutageLogin \/ StepReq \/ StoreFails \/ StoreRecovers

SpecOutage == Init /\ [][NextOutage]_vars

\* ------------------------------------------------------------------- claims
SignupInputs ==
  {[email |-> e, password |-> p, firstName |-> n[1], lastName |-> n[2], w |-> w,
    cookie |-> NoCookie] : e \in Emails, p \in Passwords, n \in NameInputs, w \in BOOLEAN}

LoginInputs ==
  {[email |-> e, password |-> p, w |-> w, cookie |-> NoCookie] :
     e \in Emails, p \in Passwords, w \in BOOLEAN}

CookieRequests == {[w |-> w, cookie |-> c] : w \in BOOLEAN, c \in CookieInputs}

\* the outcome of serving the request (op, in) in the current state
Result(op, in) == Run(DB, NewReq(op, in), now)

Registered(email) == \E u \in users : u.email = email

\* C1: in every store state, Signup with an email some user row already has
\* fails with 'user with this email already exists' and leaves the user rows
\* and the session rows as they were.
C1_SignupConflict ==
  \A in \in SignupInputs :
    Registered(in.email) =>
      LET r == Result("signup", in)
      IN /\ r.rq.out.err = ErrEmailExists
         /\ r.rq.out.data = NoData
         /\ r.db.users = users
         /\ r.db.sessions = sessions

C1_Witness == resp.op = "signup" /\ resp.err = ErrEmailExists /\ users # {}

\* C2: a successful Signup adds exactly one user row and exactly one session
\* row; the returned token validates to claims whose subject and userId are
\* the new user's id; the session row carries exactly the returned token and
\* the new user's id and expires 7 days after the call; the returned expiresAt
\* is the RFC3339 form of that row's expiry.
C2_SignupIssuesSession ==
  \A in \in SignupInputs :
    LET r == Result("signup", in)
        p == r.rq.out.data
        v == ValidateJWT(r.db, p.token, now)
        newUsers == r.db.users \ users
        newSessions == r.db.sessions \ sessions
    IN r.rq.out.err = ErrNil =>
         /\ p.kind = "auth"
         /\ Cardinality(newUsers) = 1
         /\ Cardinality(newSessions) = 1
         /\ sessions \subseteq r.db.sessions
         /\ v.err = ErrNil
         /\ \A u \in newUsers :
              /\ u.email = in.email
              /\ v.claims.sub = UUIDString(u.id)
              /\ v.claims.userId = UUIDString(u.id)
              /\ p.user.id = UUIDString(u.id)
              /\ \A s \in newSessions : s.userId = u.id
         /\ v.claims.exp = v.claims.iat + TokenTTL
         /\ {s \in r.db.sessions : s.token = p.token} = newSessions
         /\ \A s \in newSessions :
              /\ s.expiresAt = now + TokenTTL * TicksPerSec
              /\ p.expiresAt = FormatRFC3339(s.expiresAt)

C2_Witness == resp.op = "signup" /\ resp.err = ErrNil /\ sessions # {}

\* C3: Login(e, p) succeeds exactly when a user row with email e exists and p
\* is the password that user signed up with; otherwise it fails with 'invalid
\* email or password'.  A success adds one session row.  After signup(a, pw1):
\* signup(a, pw2) is a Conflict, login(a, pw2) is InvalidCredentials and
\* login(a, pw1) succeeds with a new session.
C3_LoginIffSignupPassword ==
  /\ \A in \in LoginInputs :
       LET r == Result("login", in)
           good == Registered(in.email)
                     /\ [email |-> in.email, password |-> in.password] \in signedUp
       IN /\ (r.rq.out.err = ErrNil) <=> good
          /\ ~good => r.rq.out.err = ErrInvalidCredentials
          /\ good => /\ Cardinality(r.db.sessions \ sessions) = 1
                     /\ sessions \subseteq r.db.sessions
                     /\ r.rq.out.data.user.email = in.email
  /\ \A s \in signedUp : \A in \in SignupInputs :
       in.email = s.email => Result("signup", in).rq.out.err = ErrEmailExists

C3_Witness ==
  /\ resp.op = "login" /\ resp.err = ErrNil
  /\ [email |-> "a@x.com", password |-> "pw1"] \in signedUp
  /\ \E s \in sessions : \E u \in users : u.email = "a@x.com" /\ s.userId = u.id
  /\ Cardinality(sessions) > 1

\* C4: a Login for an unknown email and a Login for a registered email with a
\* wrong password give one and the same response (the error 'invalid email or
\* password', no data, no Set-Cookie header) and leave the store unchanged.
FailedLoginResponse == [err |-> ErrInvalidCredentials, data |-> NoData, cookies |-> <<>>]

C4_FailedLoginsIndistinguishable ==
  \A in \in LoginInputs :
    LET r == Result("login", in)
        unknown == ~Registered(in.email)
        wrongPassword == Registered(in.email)
                           /\ [email |-> in.email, password |-> in.password] \notin signedUp
    IN (unknown \/ wrongPassword) =>
         /\ r.rq.out = FailedLoginResponse
         /\ r.db = DB

C4_Witness ==
  /\ resp.op = "login" /\ resp.err = ErrInvalidCredentials
  /\ Registered("a@x.com") /\ ~Registered("b@x.com")

C6_ConcurrentSignupConflict ==
  \A i \in 1..Len(reqs) :
    (reqs[i].op = "signup" /\ reqs[i].pc = "create" /\ Registered(reqs[i].in.email)) =>
      LET r == Run(DB, reqs[i], now)
      IN /\ r.rq.out.err = ErrEmailExists
         /\ r.db.sessions = sessions

\* C11: Logout never fails observably, whether the store is reachable or not:
\* the result is true with no error; served with a ResponseWriter the response
\* carries exactly the clearing auth_token cookie (empty value, MaxAge -1);
\* without an inbound cookie, and when the delete fails, the store is left as
\* it was.
C11_LogoutBestEffort ==
  \A in \in {[w |-> w, cookie |-> c] : w \in BOOLEAN, c \in FaultCookieInputs} :
    LET r == Result("logout", in)
    IN /\ r.rq.out.err = ErrNil
       /\ r.rq.out.data = [kind |-> "bool", value |-> TRUE]
       /\ in.w => /\ Len(r.rq.out.cookies) = 1
                  /\ r.rq.out.cookies[1].Name = "auth_token"
                  /\ r.rq.out.cookies[1].Value = NoCookie
                  /\ r.rq.out.cookies[1].MaxAge = -1
       /\ (in.cookie = NoCookie \/ dbDown) => r.db = DB

\* a Logout carrying an issued token completed while the store was down: the
\* session row is still there
C11_Witness ==
  /\ resp.op = "logout" /\ resp.err = ErrNil /\ resp.w
  /\ dbDown
  /\ resp.cookie \in issued
  /\ \E s \in sessions : s.token = resp.cookie

\* the same request served with no ResponseWriter in its context
NoWriter(in) == [in EXCEPT !.w = FALSE]

\* C19: with no ResponseWriter in the request context and the store reachable,
\* Signup and Login succeed exactly when they succeed with one, leave the same
\* rows and return the same payload, and the response carries no cookie; a
\* successful one adds its session row (and Signup its user row); Logout
\* returns true, leaves the same rows and sets no cookie.
C19_NoWriterStillSucceeds ==
  ~dbDown =>
    /\ \A op \in {"signup", "login"} :
         \A in \in (IF op = "signup" THEN SignupInputs ELSE LoginInputs) :
           LET r == Result(op, NoWriter(in))
               q == Result(op, [in EXCEPT !.w = TRUE])
           IN /\ r.rq.out.cookies = <<>>
              /\ r.rq.out.err = q.rq.out.err
              /\ r.rq.out.data = q.rq.out.data
              /\ r.db = q.db
              /\ r.rq.out.err = ErrNil =>
                   /\ r.rq.out.data.kind = "auth"
                   /\ Cardinality(r.db.sessions \ sessions) = 1
                   /\ Cardinality(r.db.users \ users) = (IF op = "signup" THEN 1 ELSE 0)
              /\ (op = "signup" /\ ~Registered(in.email)) => r.rq.out.err = ErrNil
    /\ \A c \in FaultCookieInputs :
         LET r == Result("logout", [w |-> FALSE, cookie |-> c])
             q == Result("logout", [w |-> TRUE, cookie |-> c])
         IN /\ r.rq.out.err = ErrNil
            /\ r.rq.out.data = [kind |-> "bool", value |-> TRUE]
            /\ r.rq.out.cookies = <<>>
            /\ r.db = q.db

\* a Login without a ResponseWriter succeeded and its session row is stored
C19_Witness ==
  /\ resp.op = "login" /\ resp.err = ErrNil /\ ~resp.w
  /\ Cardinality(sessions) >= 2
  /\ users # {}

\* what a successful Login leaves in the store db0 it was served on: every
\* row that was there, and one more, owned by the user the payload names
LoginAddsOneSession(db0, r) ==
  r.rq.out.err = ErrNil =>
    /\ db0.sessions \subseteq r.db.sessions
    /\ Cardinality(r.db.sessions) = Cardinality(db0.sessions) + 1
    /\ \A s \in r.db.sessions \ db0.sessions :
         /\ s.token = r.rq.out.data.token
         /\ \E u \in db0.users : u.id = s.userId /\ u.email = r.rq.in.email
    /\ r.db.users = db0.users

\* a Login served right after the successful Login r
LoginAgain(r, in) == Run(r.db, NewReq("login", in), now)

LoginTwiceAddsTwo(db0, r, r2) ==
  (r.rq.out.err = ErrNil /\ r2.rq.out.err = ErrNil) =>
    /\ LoginAddsOneSession(r.db, r2)
    /\ db0.sessions \subseteq r2.db.sessions
    /\ Cardinality(r2.db.sessions) = Cardinality(db0.sessions) + 2

\* C20: every successful Login adds exactly one session row and keeps every
\* row that was there; two successful Logins in a row, even for the same
\* account within one second, leave two more rows.
C20_LoginAddsSession ==
  \A in \in LoginInputs :
    /\ LoginAddsOneSession(DB, Result("login", in))
    /\ \A in2 \in {i \in LoginInputs : i.w} :
         LoginTwiceAddsTwo(DB, Result("login", in), LoginAgain(Result("login", in), in2))

\* a Login succeeded for a user who now holds two session rows
C20_Witness ==
  /\ resp.op = "login" /\ resp.err = ErrNil
  /\ \E u \in users : Cardinality({s \in sessions : s.userId = u.id}) >= 2

\* C18: a successful Signup or Login served with a ResponseWriter carries the
\* auth_token cookie exactly once: name auth_token, value the returned token,
\* path /, HttpOnly, SameSite Lax, expiring 7 days after the call.
C18_CookieSetOnce ==
  \A op \in {"signup", "login"} :
    \A in \in {i \in (IF op = "signup" THEN SignupInputs ELSE LoginInputs) : i.w} :
      LET r == Result(op, in)
      IN r.rq.out.err = ErrNil =>
           /\ Len(r.rq.out.cookies) = 1
           /\ \A k \in DOMAIN r.rq.out.cookies :
                r.rq.out.cookies[k] = AuthCookie(r.rq.out.data.token, now + TokenTTLTicks)

\* the callback requests a client can send to a provider's callback route:
\* any state parameter, with or without a state cookie of any value
Providers == {"google", "github"}

OutcomesOf(op) == IF op = "google" THEN GoogleOutcomes ELSE GitHubOutcomes

StateCookies ==
  {[present |-> FALSE, value |-> ""]} \cup {[present |-> TRUE, value |-> v] : v \in StateParams}

CallbackRequests(op) ==
  {[BrowserCallback(state, outcome) EXCEPT !.stateCookie = c] :
     state \in StateParams, outcome \in OutcomesOf(op), c \in StateCookies}

\* the callback requests whose state parameter equals their state cookie: the
\* value the browser holds, and a value the client has made up
MatchingStates ==
  {"forged"} \cup (IF SentCookie(browser.jar.oauth_state, now).present
                    THEN {browser.jar.oauth_state.value} ELSE {})

MatchingRequests(op) ==
  {[BrowserCallback(v, outcome) EXCEPT !.stateCookie = [present |-> TRUE, value |-> v]] :
     v \in MatchingStates, outcome \in OutcomesOf(op)}

StateRejected(in) == ~in.stateCookie.present \/ in.state # in.stateCookie.value

\* C12: for both providers, a callback with no oauth_state cookie, or whose
\* state parameter differs from the cookie, is answered 400 before anything
\* else happens: no call to the provider, no change to the user and session
\* rows, no cookie in the response.
C12_StateCheckedFirst ==
  \A op \in Providers :
    \A in \in {i \in CallbackRequests(op) : StateRejected(i)} :
      LET r == Result(op, in)
      IN /\ r.rq.out.err = (IF in.stateCookie.present THEN ErrInvalidState ELSE ErrStateCookie)
         /\ r.rq.out.data = [kind |-> "http", status |-> 400]
         /\ r.rq.upstream = <<>>
         /\ r.db = DB
         /\ r.rq.out.cookies = <<>>

\* a callback carrying a minted state that is not the one of the browser's
\* state cookie was rejected, with users in the store
C12_Witness ==
  /\ resp.op \in Providers /\ resp.err = ErrInvalidState
  /\ browser.last.state = StateValue(1) /\ ~browser.last.accepted
  /\ browser.jar.oauth_state.present /\ browser.jar.oauth_state.value = StateValue(2)
  /\ users # {}

\* a callback request that gets as far as a profile, the profile's email and
\* the provider's id for the account
GitHubAnswer(in) == getGitHubUserInfo(in.api)

Resolves(op, in) ==
  /\ ~StateRejected(in) /\ in.code # "" /\ in.exchange = ErrNil
  /\ IF op = "google" THEN in.userinfo.err = ErrNil ELSE GitHubAnswer(in).err = ErrNil

ResolvedEmail(op, in) ==
  IF op = "google" THEN in.userinfo.body.Email ELSE GitHubAnswer(in).info.Email

ProviderID(op, in) ==
  IF op = "google" THEN in.userinfo.body.Id ELSE ToString(in.api.user.body.ID)

\* a password account that has no id for the provider yet, and the same row
\* with the id recorded
LocalUnlinked(u, op) ==
  /\ u.passwordHash # EmptyHash
  /\ IF op = "google" THEN ~u.googleID.Valid ELSE ~u.githubID.Valid

Linked(u, op, id, t) ==
  IF op = "google" THEN [u EXCEPT !.googleID = ValidString(id), !.updatedAt = t]
  ELSE [u EXCEPT !.githubID = ValidString(id), !.updatedAt = t]

LinkKeepsAccount(op, in, u, r) ==
  /\ r.rq.out.err = ErrNil
  /\ r.db.users = (users \ {u}) \cup {Linked(u, op, ProviderID(op, in), now)}
  /\ \A c \in signedUp :
       c.email = u.email =>
         LoginAgain(r, [email |-> c.email, password |-> c.password, w |-> TRUE,
                        cookie |-> NoCookie]).rq.out.err = ErrNil

\* C13: a callback whose profile email is that of a password account without
\* an id for the provider succeeds and changes that user row in the provider's
\* id column (and updated_at) only: id, email, password hash, names,
\* email-verified flag, the other provider's id and the progression fields are
\* as before, no other user row changes, and Login with the password chosen at
\* signup still succeeds.
C13_LinkKeepsAccount ==
  \A op \in Providers :
    \A in \in {i \in MatchingRequests(op) : Resolves(op, i)} :
      \A u \in {v \in users : v.email = ResolvedEmail(op, in) /\ LocalUnlinked(v, op)} :
        LinkKeepsAccount(op, in, u, Result(op, in))

\* a Google callback has completed and a password account carries a Google id
C13_Witness ==
  /\ resp.op = "google" /\ resp.err = ErrNil
  /\ \E u \in users : u.passwordHash # EmptyHash /\ u.googleID.Valid /\ ~u.emailVerified
  /\ signedUp # {}

\* the upstream steps of a callback that has passed its state check: the code
\* of the redirect, the code exchange, the profile call(s)
ProfileCallFails(op, in) ==
  IF op = "google" THEN in.userinfo.err # ErrNil
  ELSE \/ in.api.user.err # ErrNil
       \/ in.api.user.status # 200

EmailsCallFails(op, in) ==
  /\ op = "github"
  /\ in.api.user.err = ErrNil /\ in.api.user.status = 200
  /\ in.api.user.body.Email = ""
  /\ (in.api.emails.err # ErrNil \/ in.api.emails.status # 200)

UpstreamFails(op, in) ==
  /\ ~StateRejected(in)
  /\ \/ in.code = ""
     \/ in.exchange # ErrNil
     \/ ProfileCallFails(op, in)
     \/ EmailsCallFails(op, in)

Aborted(r) ==
  /\ r.rq.out.err # ErrNil
  /\ r.rq.out.data.kind = "http" /\ r.rq.out.data.status >= 400
  /\ r.db = DB
  /\ \A k \in DOMAIN r.rq.out.cookies : r.rq.out.cookies[k].Name # "auth_token"

\* C14: a callback one of whose upstream steps fails (no code, code exchange
\* error, a profile call that errs or answers a status other than 200) ends
\* with an error response, leaves the user and session rows as they were and
\* sets no auth_token cookie.
C14_UpstreamFailureAborts ==
  \A op \in Providers :
    \A in \in {i \in CallbackRequests(op) : UpstreamFails(op, i)} :
      Aborted(Result(op, in))

\* the callback requests that get as far as a profile, with any redirect
\* cookie or none
RedirectCookies ==
  {[present |-> FALSE, value |-> ""]}
  \cup {[present |-> TRUE, value |-> v] : v \in (RedirectInputs \ {""}) \cup {DefaultRedirectURI}}

ResolvingRequests(op) ==
  {[i EXCEPT !.redirectCookie = c] :
     i \in {j \in MatchingRequests(op) : Resolves(op, j)}, c \in RedirectCookies}

\* the user a callback resolves to: found by the profile's email or by the
\* provider's id, or created with both
ResolvedBy(u, op, in) ==
  \/ u.email = ResolvedEmail(op, in)
  \/ IF op = "google" THEN u.googleID = ValidString(ProviderID(op, in))
     ELSE u.githubID = ValidString(ProviderID(op, in))

CallbackIssuesSession(op, in, r) ==
  LET token == r.rq.out.data.token
  IN /\ r.rq.out.err = ErrNil
     /\ r.rq.out.data = [kind |-> "redirect", status |-> 307, token |-> token,
                         to |-> IF in.redirectCookie.present THEN in.redirectCookie.value
                                ELSE DefaultRedirectURI]
     /\ sessions \subseteq r.db.sessions
     /\ Cardinality(r.db.sessions \ sessions) = 1
     /\ \A s \in r.db.sessions \ sessions :
          /\ s.token = token
          /\ s.expiresAt = now + TokenTTLTicks
          /\ \E u \in r.db.users :
               /\ u.id = s.userId /\ ResolvedBy(u, op, in)
               /\ token = GenerateJWT(u.id, u.email, now)
     /\ Len(r.rq.out.cookies) = 3
     /\ r.rq.out.cookies[3] = AuthCookie(token, now + TokenTTLTicks)
     /\ \A k \in 1..2 : r.rq.out.cookies[k].Name # "auth_token"

\* C15: a callback that ends without error has created exactly one session row,
\* for the user it resolved, holding the JWT it has just minted for that user;
\* its response sets the auth_token cookie to that token and redirects (307)
\* to the value of the oauth_redirect_uri cookie, or to http://localhost:3000
\* when the request has no such cookie.  A callback that gets a profile from
\* the provider ends without error.
C15_CallbackIssuesSession ==
  \A op \in Providers :
    /\ \A in \in ResolvingRequests(op) : CallbackIssuesSession(op, in, Result(op, in))
    /\ \A in \in MatchingRequests(op) :
         ~Resolves(op, in) => Result(op, in).rq.out.err # ErrNil

\* a Google callback of a handshake started with a redirect target of its own
\* has completed and its session row is stored
C15_Witness ==
  /\ resp.op = "google" /\ resp.err = ErrNil
  /\ browser.last.accepted
  /\ ~browser.google.open /\ browser.google.redirect # DefaultRedirectURI
  /\ browser.last.state = browser.google.state
  /\ \E s \in sessions : s.token \in issued

Other(p) == IF p = "google" THEN "github" ELSE "google"

\* the handshake provider p has in progress in the browser
Handshake(p) == IF p = "google" THEN browser.google ELSE browser.github

\* a callback request of the browser that the provider lets through
PlainCallback(op, state) ==
  BrowserCallback(state, CHOOSE o \in OutcomesOf(op) : o.code # "" /\ o.exchange = ErrNil)

\* the callback of p would be checked against what p's initiation issued
CheckedAgainstOwn(p) ==
  /\ SentCookie(browser.jar.oauth_state, now) = [present |-> TRUE, value |-> Handshake(p).state]
  /\ SentCookie(browser.jar.oauth_redirect_uri, now) =
       [present |-> TRUE, value |-> Handshake(p).redirect]

\* C16: the handshakes of the two providers do not interfere: while a
\* handshake of provider p is in progress in the browser, the state value and
\* the redirect target its callback is checked against are the ones p's
\* initiation issued, whatever the other provider's initiation has done since,
\* and the other provider's callback rejects the state p has minted.
C16_HandshakesIndependent ==
  \A p \in Providers :
    Handshake(p).open =>
      /\ CheckedAgainstOwn(p)
      /\ ~PassedStateCheck(Result(Other(p), PlainCallback(Other(p), Handshake(p).state)).rq)

\* the callback request the browser sends once it has applied the cookies of
\* the response of r: what is left of its transient cookies, the same state
\* parameter, and what the provider does with the second callback
Replay(r, outcome) ==
  LET jar == ApplySetCookies(browser.jar, r.rq.out.cookies, now)
  IN [f \in DOMAIN outcome \cup {"stateCookie", "state", "redirectCookie", "w", "cookie"} |->
        CASE f = "stateCookie" -> SentCookie(jar.oauth_state, now)
          [] f = "state" -> r.rq.in.state
          [] f = "redirectCookie" -> SentCookie(jar.oauth_redirect_uri, now)
          [] f = "w" -> TRUE
          [] f = "cookie" -> NoCookie
          [] OTHER -> outcome[f]]

ReplayRejected(r, op2) ==
  PassedStateCheck(r.rq) =>
    \A outcome \in OutcomesOf(op2) :
      LET r2 == Run(r.db, NewReq(op2, Replay(r, outcome)), now)
      IN /\ r2.rq.out.err = ErrStateCookie
         /\ r2.db = r.db
         /\ r2.rq.out.cookies = <<>>

\* C17: a state value is good for one callback: once a callback has accepted
\* the browser's state, a second callback presenting the same state, to either
\* provider's callback route, from the browser that has applied the first
\* response's cookies, is rejected at the state check, right away and after
\* whatever the browser has done since.
C17_StateOneTime ==
  /\ \A op \in Providers, op2 \in Providers :
       \A state \in StateParams \ {""} :
         \A outcome \in OutcomesOf(op) :
           ReplayRejected(Result(op, BrowserCallback(state, outcome)), op2)
  /\ \A op \in Providers :
       \A state \in browser.used :
         ~PassedStateCheck(Result(op, PlainCallback(op, state)).rq)

\* a callback presenting a state that an earlier callback had accepted was
\* rejected for want of the state cookie
C17_Witness ==
  /\ resp.op \in Providers /\ resp.err = ErrStateCookie
  /\ ~browser.last.accepted
  /\ browser.last.state \in browser.used
  /\ ~browser.jar.oauth_state.present

\* the user a token was minted for
TokenOwner(token) == token.claims.userId

\* C21: when a Logout carrying a token T1 of user u and a Login of u that has
\* minted T2 have both returned, however their store operations interleaved,
\* no session row holds T1 and a session row holds T2.
C21_LogoutLoginRace ==
  \A i \in 1..Len(reqs), j \in 1..Len(reqs) :
    ( /\ reqs[i].op = "logout" /\ reqs[i].pc = "done"
      /\ reqs[j].op = "login" /\ reqs[j].pc = "done" /\ reqs[j].out.err = ErrNil
      /\ TokenOwner(reqs[i].in.cookie) = reqs[j].out.data.user.id )
    => /\ ~\E s \in sessions : s.token = reqs[i].in.cookie
       /\ \E s \in sessions : s.token = reqs[j].out.data.token

\* the instants a token minted at t0 is presented at: the clock's points, the
\* instant of minting, and the instants around the end of its lifetime
ValidationTimes(t0) ==
  ClockPoints \cup {t0} \cup {t0 + TokenTTLTicks + d : d \in -TicksPerSec..TicksPerSec}

Accepted(T, t) == ValidateJWT(DB, T, t).err = ErrNil

\* C22 as claimed: a token issued at time t carries issued-at = not-before = t
\* (in whole seconds) and expiry = t + 7 days; ValidateJWT accepts it at every
\* time in [t, t + 7 days], rejects it at every time after t + 7 days, and
\* rejects it under a signature that is not the process secret's.
C22_WindowAsClaimed ==
  \A s \in sessions :
    /\ s.token.claims.iat = NumericDate(s.createdAt)
    /\ s.token.claims.nbf = NumericDate(s.createdAt)
    /\ s.token.claims.exp = NumericDate(s.createdAt + TokenTTLTicks)
    /\ \A t \in ValidationTimes(s.createdAt) :
         /\ (s.createdAt <= t /\ t <= s.createdAt + TokenTTLTicks) => Accepted(s.token, t)
         /\ t > s.createdAt + TokenTTLTicks => ~Accepted(s.token, t)
         /\ ~Accepted([s.token EXCEPT !.sig = "attacker-key"], t)

\* C22: a token issued at time t carries issued-at = not-before = the whole
\* second of t and expiry = that second + 7 days; ValidateJWT accepts it at
\* every time from that second up to, not including, the expiry second and
\* rejects it at the expiry second and at every later time, and at every time
\* rejects it under a signature that is not the process secret's.
C22_TokenWindow ==
  \A s \in sessions :
    /\ s.token.claims.iat = NumericDate(s.createdAt)
    /\ s.token.claims.nbf = NumericDate(s.createdAt)
    /\ s.token.claims.exp = NumericDate(s.createdAt) + TokenTTL
    /\ \A t \in ValidationTimes(s.createdAt) :
         /\ Accepted(s.token, t) <=>
              (s.token.claims.nbf * TicksPerSec <= t /\ t < s.token.claims.exp * TicksPerSec)
         /\ ~Accepted([s.token EXCEPT !.sig = "attacker-key"], t)

\* Me was asked with an issued token at the very instant 7 days after its
\* second of issue, and refused it
C22_Witness ==
  /\ resp.op = "me" /\ resp.err = ErrInvalidToken
  /\ resp.cookie \in {s.token : s \in sessions}
  /\ now = resp.cookie.claims.iat * TicksPerSec + TokenTTLTicks

\* ---- GetQuestions
\* a row matches the filters of a request: the search string is found in the
\* title (in any case) or starts the id, the difficulty is the one asked for,
\* the topics overlap
MatchesFilters(q, input) ==
  /\ (~input.Search.isNil /\ input.Search.val # <<>>) =>
       \/ ILike(q.Title, <<"%">> \o input.Search.val \o <<"%">>)
       \/ Like(Digits(q.ID), input.Search.val \o <<"%">>)
  /\ (~input.Difficulty.isNil /\ input.Difficulty.val # "") =>
       q.Difficulty = input.Difficulty.val
  /\ input.Topics # {} => q.Topics \cap input.Topics # {}

\* N: the rows matching the filters of the last request, from its offset on
MatchingFromOffset ==
  LET matching == Len(SelectSeq(questions, LAMBDA q : MatchesFilters(q, listing.input)))
      offset == IF listing.input.Offset.isNil \/ listing.input.Offset.val < 0
                THEN 0 ELSE listing.input.Offset.val
  IN IF matching > offset THEN matching - offset ELSE 0

\* a GetQuestions request was served and answered without error
Listed == listing.stmt.query # <<>> /\ listing.err = ErrNil

\* the rows the last statement asked the store for
RowsAskedFor ==
  BoundAfter(listing.stmt.query, listing.stmt.args, PieceAt(listing.stmt.query, " LIMIT "))

PageOf(n, l) ==
  /\ Len(listing.out.Questions) = (IF n < l THEN n ELSE l)
  /\ Len(listing.out.Questions) <= l
  /\ listing.out.HasMore = (n > l)
  /\ RowsAskedFor = l + 1

\* C23: a GetQuestions request with effective page size L, over N rows
\* matching its filters from its offset on, asked the store for L + 1 rows and
\* returned min(N, L) questions, never more than L, with hasMore = (N > L).
C23_PageAndHasMore == Listed => PageOf(MatchingFromOffset, EffectiveLimit(listing.input.Limit))

\* limit 10 over eleven matching rows: ten questions, hasMore true
C23_Witness ==
  /\ Listed
  /\ ~listing.input.Limit.isNil /\ listing.input.Limit.val = 10
  /\ MatchingFromOffset = 11
  /\ Len(listing.out.Questions) = 10
  /\ listing.out.HasMore

\* limit 10 over exactly ten matching rows: ten questions, hasMore false
C23_WitnessExact ==
  /\ Listed
  /\ ~listing.input.Limit.isNil /\ listing.input.Limit.val = 10
  /\ MatchingFromOffset = 10
  /\ Len(listing.out.Questions) = 10
  /\ ~listing.out.HasMore

\* limits a caller can send, on both sides of the clamp
LimitRange == (0 - 2 * 100)..(2 * 100)

\* the effective page size for every limit lies in 1..100, and is 25 when no
\* limit is given and 100 for a limit above 100
LimitWithinRange ==
  /\ EffectiveLimit(NilPtr) = 25
  /\ \A n \in LimitRange :
       /\ EffectiveLimit(Ptr(n)) \in 1..100
       /\ n \in 1..100 => EffectiveLimit(Ptr(n)) = n
       /\ n > 100 => EffectiveLimit(Ptr(n)) = 100

\* C24: the effective page size of GetQuestions is the requested limit
\* clamped to [1,100], 25 when none is given: it lies in [1,100] for every
\* integer, a limit above 100 becomes 100 and a limit below 1 becomes 1.
C24_LimitClamped ==
  listing.stmt.query # <<>> =>
       /\ RowsAskedFor - 1 \in 1..100
       /\ listing.input.Limit.isNil => RowsAskedFor - 1 = 25
       /\ (~listing.input.Limit.isNil /\ listing.input.Limit.val > 100) =>
            RowsAskedFor - 1 = 100
       /\ (~listing.input.Limit.isNil /\ listing.input.Limit.val < 1) => RowsAskedFor - 1 = 1
       /\ LimitWithinRange
       /\ \A n \in LimitRange : n < 1 => EffectiveLimit(Ptr(n)) = 1

\* what the code does with a limit below 1: the default page size
C24_BelowOneIsDefault ==
  /\ LimitWithinRange
  /\ \A n \in LimitRange : n < 1 => EffectiveLimit(Ptr(n)) = 25
  /\ (Listed /\ ~listing.input.Limit.isNil /\ listing.input.Limit.val < 1) =>
       RowsAskedFor = 25 + 1

\* a request with limit 0 was served over more than one row and returned them
C24_Witness ==
  /\ Listed
  /\ ~listing.input.Limit.isNil /\ listing.input.Limit.val = 0
  /\ Len(listing.out.Questions) > 1

\* ---- the ORDER BY clause
SortLiterals == {"id", "difficulty", "ASC", "DESC"}

\* the string a caller supplied is no piece of the statement's text
Absent(p, query) ==
  (~p.isNil /\ p.val \notin SortLiterals) => \A k \in 1..Len(query) : query[k] # p.val

OrderByAsClaimed(input, query) ==
  LET i == PieceAt(query, " ORDER BY ")
  IN /\ i # 0
     /\ query[i + 1] \in {"id", "difficulty"}
     /\ query[i + 3] \in {"ASC", "DESC"}
     /\ query[i + 1] = (IF ~input.SortBy.isNil /\ input.SortBy.val \in {"id", "difficulty"}
                        THEN input.SortBy.val ELSE "id")
     /\ query[i + 3] = (IF ~input.SortOrder.isNil /\ input.SortOrder.val \in {"ASC", "DESC"}
                        THEN input.SortOrder.val ELSE "ASC")
     /\ Absent(input.SortBy, query)
     /\ Absent(input.SortOrder, query)
     /\ Absent(input.Difficulty, query)

\* C25: the ORDER BY clause of every statement built orders by id or
\* difficulty, ASC or DESC; a sortBy outside the allow-list orders by id and a
\* sortOrder outside it orders ASC, each independently of the other, and no
\* other caller-supplied string is part of the statement's text.
C25_OrderByAllowList ==
  listing.stmt.query # <<>> => OrderByAsClaimed(listing.input, listing.stmt.query)

\* sortBy "dangerous" with sortOrder DESC: ordered by id, downwards, and the
\* store answered
C25_Witness ==
  /\ Listed
  /\ ~listing.input.SortBy.isNil /\ listing.input.SortBy.val = "dangerous"
  /\ ~listing.input.SortOrder.isNil /\ listing.input.SortOrder.val = "DESC"
  /\ listing.stmt.query[PieceAt(listing.stmt.query, " ORDER BY ") + 1] = "id"
  /\ listing.stmt.query[PieceAt(listing.stmt.query, " ORDER BY ") + 3] = "DESC"
  /\ Len(listing.out.Questions) > 1
  /\ listing.out.Questions[1].ID = Digits(Len(questions))

\* ---- password login to accounts created by OAuth
\* passwords a client may try, the empty one among them
PasswordCandidates == Passwords \cup {""}
\* a stored hash that is no bcrypt hash
MalformedHash == [alg |-> "md5", pw |-> "pw1"]

\* the row was not created by Signup
OAuthCreated(u) == \A c \in signedUp : c.email # u.email

LoginRefused(r) ==
  /\ r.rq.out.err = ErrInvalidCredentials
  /\ r.db = DB
  /\ \A k \in DOMAIN r.rq.out.cookies : r.rq.out.cookies[k].Name # "auth_token"

PasswordLogin(email, password) ==
  Result("login", [email |-> email, password |-> password, w |-> TRUE, cookie |-> NoCookie])

\* C26: a user row created by an OAuth callback has the empty password hash,
\* and a password Login for its email fails with 'invalid email or password'
\* for every candidate password, the empty one included; VerifyPassword is
\* false for the empty hash and for a malformed one.
C26_NoPasswordLoginForOAuthUser ==
  /\ \A u \in users :
       OAuthCreated(u) =>
         /\ u.passwordHash = EmptyHash
         /\ \A pw \in PasswordCandidates : LoginRefused(PasswordLogin(u.email, pw))
  /\ \A pw \in PasswordCandidates :
       ~VerifyPassword(EmptyHash, pw) /\ ~VerifyPassword(MalformedHash, pw)

\* an OAuth-created user whose email is tried with the empty password
C26_Witness ==
  \E u \in users :
    /\ OAuthCreated(u) /\ u.email # ""
    /\ resp.op \in Providers /\ resp.err = ErrNil
    /\ LoginRefused(PasswordLogin(u.email, ""))

\* ---- user rows are never removed
\* every user row is still there after the step, with its id, its email and
\* its password hash
UsersKept ==
  /\ \A u \in users :
       \E v \in users' :
         v.id = u.id /\ v.email = u.email /\ v.passwordHash = u.passwordHash
  /\ Cardinality(users') >= Cardinality(users)

\* C27: no operation (Signup, Login, Logout, Me, OAuth initiate and callback,
\* DeleteSession, DeleteUserSessions, CleanExpiredSessions) deletes a user row
\* or changes the id, email or password hash of an existing one: the set of
\* users only grows.
C27_UsersOnlyGrow == [][UsersKept]_vars

\* a password account that was linked to a provider, after session rows were
\* created and all of them deleted again
C27_Witness ==
  /\ \E u \in users : u.passwordHash # EmptyHash /\ (u.googleID.Valid \/ u.githubID.Valid)
  /\ sessSeq >= 2
  /\ sessions = {}

\* ---- the order of the account linkage
\* the request served to completion, with the steps it went through
RECURSIVE RunPath(_, _, _)
RunPath(r, t, path) ==
  IF r.rq.pc = "done" THEN [db |-> r.db, rq |-> r.rq, path |-> path]
  ELSE RunPath(Step(r.db, r.rq, t), t, Append(path, r.rq.pc))

ResultPath(op, in) == RunPath([db |-> DB, rq |-> NewReq(op, in)], now, <<>>)

Went(r, pc) == \E k \in 1..Len(r.path) : r.path[k] = pc

\* the same callback request with another profile: email e, the n-th account
\* of the provider
Reprofiled(op, in, e, n) ==
  IF op = "google"
  THEN [in EXCEPT !.userinfo.body.Email = e, !.userinfo.body.Id = "g-" \o ToString(n)]
  ELSE [in EXCEPT !.api.user.body.Email = e, !.api.user.body.ID = 6 + n]

\* callbacks that get a profile: the ones the provider outcomes give, and the
\* same with every email and two provider accounts
LinkageRequests(op) ==
  LET resolving == {AccountCallback(o) : o \in OutcomesOf(op)}
  IN {i \in resolving : Resolves(op, i)}
     \cup {Reprofiled(op, i, e, n) :
             i \in {j \in resolving : Resolves(op, j) /\ ResolvedEmail(op, j) # ""},
             e \in Emails, n \in 1..2}

HasProviderID(u, op) ==
  IF op = "google" THEN u.googleID.Valid /\ u.googleID.String # ""
  ELSE u.githubID.Valid /\ u.githubID.String # ""

RecordedAs(u, op, id) ==
  IF op = "google" THEN u.googleID = ValidString(id) ELSE u.githubID = ValidString(id)

\* the user the callback's new session row belongs to
SessionUser(r) == {u \in r.db.users : \E s \in r.db.sessions \ sessions : s.userId = u.id}

\* (a) the row with the resolved email is returned; it gets the provider id
\* only if it had none; the lookup by provider id is not made
LinkedByEmail(op, in, r, u) ==
  LET after == IF HasProviderID(u, op) THEN u ELSE Linked(u, op, ProviderID(op, in), now)
  IN /\ r.db.users = (users \ {u}) \cup {after}
     /\ SessionUser(r) = {after}
     /\ ~Went(r, "byProviderID") /\ ~Went(r, "insert")
     /\ Went(r, "link") = ~HasProviderID(u, op)

\* (b) a row with the resolved provider id is returned as it is
FoundByProviderID(op, in, r) ==
  /\ r.db.users = users
  /\ \E u \in users : RecordedAs(u, op, ProviderID(op, in)) /\ SessionUser(r) = {u}
  /\ Went(r, "byProviderID") /\ ~Went(r, "link") /\ ~Went(r, "insert")

\* (c) exactly one row is created, with the resolved email and provider id
CreatedNew(op, in, r) ==
  /\ users \subseteq r.db.users
  /\ Cardinality(r.db.users \ users) = 1
  /\ \A u \in r.db.users \ users :
       /\ u.email = ResolvedEmail(op, in)
       /\ RecordedAs(u, op, ProviderID(op, in))
       /\ SessionUser(r) = {u}
  /\ Went(r, "byProviderID") /\ Went(r, "insert") /\ ~Went(r, "link")

LinkageOrder(op, in, r) ==
  /\ r.rq.out.err = ErrNil
  /\ IF \E u \in users : u.email = ResolvedEmail(op, in)
     THEN \A u \in users : u.email = ResolvedEmail(op, in) => LinkedByEmail(op, in, r, u)
     ELSE IF \E u \in users : RecordedAs(u, op, ProviderID(op, in))
     THEN FoundByProviderID(op, in, r)
     ELSE CreatedNew(op, in, r)

\* C28: a callback that gets a profile resolves the user (a) by the profile's
\* email, recording the provider id on that row only if it had none, without
\* looking the provider id up; (b) otherwise by the provider id, leaving the
\* row as it is; (c) otherwise by creating exactly one new row.
C28_LinkageOrder ==
  \A op \in Providers : \A in \in LinkageRequests(op) : LinkageOrder(op, in, ResultPath(op, in))

\* the three cases happen: a row holds the first Google account's id, and a
\* callback for the second account with that row's email leaves it unchanged;
\* a callback of the first account with an email no row has finds the row by
\* the id; a GitHub callback finds neither and creates a row
C28_Witness ==
  /\ \E u \in users : u.email = "a@x.com" /\ u.googleID = ValidString("g-1")
  /\ \A u \in users : u.email # "b@x.com" /\ ~u.githubID.Valid
  /\ \E in \in LinkageRequests("google") :
       /\ ResolvedEmail("google", in) = "a@x.com" /\ ProviderID("google", in) = "g-2"
       /\ ResultPath("google", in).db.users = users
  /\ \E in \in LinkageRequests("google") :
       /\ ResolvedEmail("google", in) = "b@x.com" /\ ProviderID("google", in) = "g-1"
       /\ FoundByProviderID("google", in, ResultPath("google", in))
  /\ \E in \in LinkageRequests("github") :
       /\ ResolvedEmail("github", in) = "b@x.com"
       /\ CreatedNew("github", in, ResultPath("github", in))

\* ---- the rows new accounts start with
\* the rows of the store after the request whose id no row had before
NewRows(r) == {v \in r.db.users : \A u \in users : u.id # v.id}

\* Bronze 1 with no rating and no match played
StartsAtBronze(u) ==
  /\ u.rating = 0 /\ u.rankTier = "Bronze" /\ u.rankSubdivision = 1
  /\ u.totalMatches = 0 /\ u.wins = 0 /\ u.losses = 0

OAuthRow(u, op, in) ==
  /\ u.emailVerified
  /\ u.passwordHash = EmptyHash
  /\ RecordedAs(u, op, ProviderID(op, in))
  /\ IF op = "google" THEN u.githubID = SqlNull ELSE u.googleID = SqlNull
  /\ StartsAtBronze(u)

SignupRow(u, in) ==
  /\ ~u.emailVerified
  /\ u.email = in.email
  /\ u.googleID = SqlNull /\ u.githubID = SqlNull
  /\ StartsAtBronze(u)

AllNewRows(rows, r, Fits(_)) == NewRows(r) = rows /\ \A u \in rows : Fits(u)

\* C29: the row an OAuth callback creates has a verified email, the empty
\* password hash, the resolved provider id and no id of the other provider;
\* the row Signup creates has an unverified email and no provider id; both
\* start with rating 0, tier Bronze, subdivision 1 and no matches, wins or
\* losses.
C29_NewUserRows ==
  /\ \A op \in Providers :
       \A in \in LinkageRequests(op) :
         \A u \in NewRows(Result(op, in)) : OAuthRow(u, op, in)
  /\ \A in \in SignupInputs : \A u \in NewRows(Result("signup", in)) : SignupRow(u, in)

\* an account created by Signup and one created by a GitHub callback are in
\* the store, and a Signup with a further email would create a third
C29_Witness ==
  /\ \E u \in users : u.passwordHash # EmptyHash /\ ~u.emailVerified /\ ~u.githubID.Valid
  /\ \E u \in users : u.passwordHash = EmptyHash /\ u.emailVerified /\ u.githubID.Valid
  /\ resp.op = "github" /\ resp.err = ErrNil
  /\ \E in \in SignupInputs : NewRows(Result("signup", in)) # {}

\* ---- the transient cookies after the state check
\* callbacks whose state parameter matches the state cookie, with every
\* outcome at the provider
PassingRequests(op) == {AccountCallback(o) : o \in OutcomesOf(op)}

\* the response clears both transient cookies: empty value, MaxAge -1
ClearsTransientCookies(r) ==
  /\ r.rq.pc = "done"
  /\ \A name \in {"oauth_state", "oauth_redirect_uri"} :
       \E k \in DOMAIN r.rq.out.cookies :
         /\ r.rq.out.cookies[k].Name = name
         /\ r.rq.out.cookies[k].Value = ""
         /\ r.rq.out.cookies[k].MaxAge = -1
         /\ \A j \in DOMAIN r.rq.out.cookies : r.rq.out.cookies[j].Name = name => j = k

\* the store round trips a callback makes at most: the lookups by email and by
\* provider id (or the update), the insert of the user, the insert of the session
StoreCalls == {"byEmail", "byProviderID", "insert", "session"}

\* the request served to completion, the store becoming unreachable after the
\* first k round trips
RECURSIVE RunDownAfter(_, _, _)
RunDownAfter(r, t, k) ==
  IF r.rq.pc = "done" THEN r
  ELSE IF k = 0 THEN RunFrom([db |-> [r.db EXCEPT !.down = TRUE], rq |-> r.rq], t)
  ELSE RunDownAfter(Step(r.db, r.rq, t), t, k - 1)

ResultDownAfter(op, in, k) == RunDownAfter([db |-> DB, rq |-> NewReq(op, in)], now, k)

\* C30: the response of a callback whose state matched the cookie clears the
\* oauth_state and oauth_redirect_uri cookies (empty value, MaxAge -1),
\* whether the callback then succeeds or fails at a later step: no code,
\* exchange error, profile error, store error.
C30_TransientCookiesCleared ==
  \A op \in Providers :
    \A in \in PassingRequests(op) :
      /\ ClearsTransientCookies(Result(op, in))
      /\ Resolves(op, in) =>
           \A k \in 0..Cardinality(StoreCalls) :
             ClearsTransientCookies(ResultDownAfter(op, in, k))

\* a callback gets its profile and resolves its user, the store becomes
\* unreachable, the insert of the session fails, and the response clears the
\* cookies
C30_Witness ==
  /\ resp.op \in Providers /\ resp.err = ErrNil
  /\ users # {}
  /\ \E in \in PassingRequests("github"), k \in 1..Cardinality(StoreCalls) :
       /\ Resolves("github", in)
       /\ ResultDownAfter("github", in, k).rq.out.err = ErrSessionHTTP
       /\ ClearsTransientCookies(ResultDownAfter("github", in, k))

\* a callback gets its profile and fails on its first store call, and its
\* response clears the cookies
C30_WitnessStoreDown ==
  /\ users # {}
  /\ \E in \in PassingRequests("google") :
       /\ Resolves("google", in)
       /\ ResultDownAfter("google", in, 0).rq.out.err = ErrCreateGetUser
       /\ ClearsTransientCookies(ResultDownAfter("google", in, 0))

\* ---- C31
\* the lookup by token would still return the session row s at time t
StillReturned(s, t) ==
  GetSessionByToken([DB EXCEPT !.sessions = {s}, !.down = FALSE], s.token, t).err = ErrNil

\* C31: a session row is returned by GetSessionByToken exactly while
\* now < expiresAt, and CleanExpiredSessions run at the same instant leaves
\* exactly the rows the lookup would still return: it deletes no row the
\* lookup returns and leaves no row the lookup excludes for expiry.
C31_SweepMatchesLookup ==
  \A s \in sessions :
    /\ StillReturned(s, now) <=> now < s.expiresAt
    /\ s \in CleanExpiredSessions([DB EXCEPT !.down = FALSE], now).db.sessions
         <=> StillReturned(s, now)

\* ---- C32
\* the external ids a link is applied with
LinkIDs == {"g-1", "7"}

\* the store after UpdateUserGoogleID / UpdateUserGithubID at time t
Link(op, db, userID, id, t) ==
  IF op = "google" THEN UpdateUserGoogleID(db, userID, id, t).db
  ELSE UpdateUserGithubID(db, userID, id, t).db

\* the rows with updated_at of the row userID set to t
Touched(rows, userID, t) ==
  {IF v.id = userID THEN [v EXCEPT !.updatedAt = t] ELSE v : v \in rows}

\* a second application a tick later changes updated_at of that row and
\* nothing else; a second application at the same instant changes nothing
LinkTwice(op, userID, id, once) ==
  /\ Link(op, once, userID, id, now + 1).users = Touched(once.users, userID, now + 1)
  /\ Link(op, once, userID, id, now) = once

\* the same callback request served again a tick after its first answer
Repeated(r, op, in) == Run(r.db, NewReq(op, in), now + 1)

RepeatChangesNoRow(r, r2) ==
  r.rq.out.err = ErrNil => r2.rq.out.err = ErrNil /\ r2.db.users = r.db.users

CallbackRepeated(r, op, in) == RepeatChangesNoRow(r, Repeated(r, op, in))

\* C32: UpdateUserGoogleID / UpdateUserGithubID applied a second time with the
\* same user id and external id leaves every column of every row as the first
\* application left it, except updated_at of that row, which takes the time
\* of the second application; and an OAuth callback repeated after it has
\* succeeded changes no user row.
C32_LinkIdempotent ==
  \A op \in Providers :
    /\ \A u \in users, id \in LinkIDs : LinkTwice(op, u.id, id, Link(op, DB, u.id, id, now))
    /\ \A in \in LinkageRequests(op) : CallbackRepeated(Result(op, in), op, in)

\* the statement as claimed: the rows after the second application are the
\* rows after the first
C32_LinkTwiceSameRow ==
  \A op \in Providers :
    \A u \in users, id \in LinkIDs :
      Link(op, Link(op, DB, u.id, id, now), u.id, id, now + 1)
        = Link(op, DB, u.id, id, now)

\* a callback has linked a password account to GitHub, and the same callback
\* sent again finds the row linked and leaves the rows as they are
C32_Witness ==
  /\ resp.op = "github" /\ resp.err = ErrNil
  /\ \E u \in users :
       /\ u.passwordHash # EmptyHash /\ HasProviderID(u, "github")
       /\ \E in \in LinkageRequests("github") :
            /\ ResolvedEmail("github", in) = u.email
            /\ ProviderID("github", in) = u.githubID.String
            /\ Result("github", in).rq.out.err = ErrNil
            /\ Result("github", in).db.users = users

\* ---- C33
\* the address the claim names for a list: that of the first entry flagged
\* primary, or of the first entry when none is flagged
PrimaryOrFirst(list) ==
  IF \E i \in 1..Len(list) : list[i].Primary
  THEN list[CHOOSE i \in 1..Len(list) :
              list[i].Primary /\ \A j \in 1..(i - 1) : ~list[j].Primary].Email
  ELSE list[1].Email

PublicEmail(in) == in.api.user.body.Email

\* the email and the calls of a callback r served for the request in: the
\* calls made to GitHub after the code exchange, the email of the profile the
\* linkage is run with, and the email of the row the linkage creates
ResolvesAsClaimed(in, r, email) ==
  /\ r.rq.out.err = ErrNil
  /\ r.rq.upstream = (IF PublicEmail(in) # "" THEN <<"exchange", "GET /user">>
                      ELSE <<"exchange", "GET /user", "GET /user/emails">>)
  /\ ResolvedEmail("github", in) = email
  /\ \A u \in NewRows(r) : u.email = email
  /\ (\A u \in users : u.email # email /\ ~RecordedAs(u, "github", ProviderID("github", in)))
       => NewRows(r) # {}

\* C33: a GitHub callback whose profile has a public email uses it and does
\* not call /user/emails; one whose profile has none calls /user/emails and
\* uses the address of the first entry flagged primary, or of the first entry
\* if none is flagged.
C33_GitHubEmailResolution ==
  \A in \in IdentityRequests :
    ResolvesAsClaimed(in, Result("github", in),
                      IF PublicEmail(in) # "" THEN PublicEmail(in)
                      ELSE PrimaryOrFirst(in.api.emails.body))

\* a callback has created a row with the address of a list's second entry,
\* its first primary one, and the list without a primary entry would give a
\* row with the address of its first entry
C33_Witness ==
  /\ resp.op = "github" /\ resp.err = ErrNil
  /\ \E u \in users : u.email = "b@x.com" /\ HasProviderID(u, "github")
  /\ \E in \in IdentityRequests :
       /\ PublicEmail(in) = "" /\ Len(in.api.emails.body) = 2
       /\ \E u \in NewRows(Result("github", in)) : u.email = "c@x.com"
  /\ \E in \in IdentityRequests :
       /\ PublicEmail(in) = "" /\ Len(in.api.emails.body) = 3
       /\ ResolvedEmail("github", in) = "b@x.com"

\* ---- C34
\* the whitespace-separated tokens of a display name: where they start, where
\* the one starting at i ends, the n-th of them
TokenStarts(str) ==
  {i \in 1..Len(str) : ~IsSpace(str[i]) /\ (i = 1 \/ IsSpace(str[i - 1]))}

TokenEnd(str, i) ==
  CHOOSE j \in i..Len(str) :
    /\ \A k \in i..j : ~IsSpace(str[k])
    /\ (j = Len(str) \/ IsSpace(str[j + 1]))

Token(str, n) ==
  LET i == CHOOSE s \in TokenStarts(str) :
             Cardinality({j \in TokenStarts(str) : j < s}) = n - 1
  IN SubSeq(str, i, TokenEnd(str, i))

\* tokens n..k with one space between neighbours
RECURSIVE TokensJoined(_, _, _)
TokensJoined(str, n, k) ==
  IF n > k THEN <<>>
  ELSE IF n = k THEN Token(str, k)
  ELSE Token(str, n) \o <<" ">> \o TokensJoined(str, n + 1, k)

\* the names of the row a callback creates, given the k tokens of the
\* display name
NamedAsClaimed(r, name, login, k) ==
  /\ r.rq.out.err = ErrNil
  /\ name = <<>> =>
       \A u \in NewRows(r) : u.firstName = NullString(login) /\ u.lastName = NullString(<<>>)
  /\ k >= 1 =>
       \A u \in NewRows(r) :
         /\ u.firstName = NullString(Token(name, 1))
         /\ u.lastName = NullString(TokensJoined(name, 2, k))

CreatesRow(in) ==
  \A u \in users :
    u.email # ResolvedEmail("github", in) /\ ~RecordedAs(u, "github", ProviderID("github", in))

\* C34: the row a GitHub callback creates has the first whitespace-separated
\* token of the display name as first name and the remaining tokens joined by
\* single spaces as last name (none when there is one token); with an empty
\* display name it has the login as first name and no last name.
C34_GitHubNameSplit ==
  \A in \in IdentityRequests :
    /\ NamedAsClaimed(Result("github", in), in.api.user.body.Name, in.api.user.body.Login,
                      Cardinality(TokenStarts(in.api.user.body.Name)))
    /\ CreatesRow(in) => NewRows(Result("github", in)) # {}

\* a callback has created the row of the display name with three tokens, and
\* a profile without display name would give a row named by the login
C34_Witness ==
  /\ resp.op = "github" /\ resp.err = ErrNil
  /\ \E u \in users :
       /\ HasProviderID(u, "github")
       /\ u.firstName = NullString(<<"A">>)
       /\ u.lastName = NullString(<<"L", " ", "B">>)
  /\ \E in \in IdentityRequests :
       /\ in.api.user.body.Name = <<>>
       /\ \E u \in NewRows(Result("github", in)) :
            u.firstName = NullString(<<"a", "d", "a">>) /\ ~u.lastName.Valid

\* ---- C35
\* the store round trips of a Signup: the lookup by email, the insert of the
\* user, the insert of the session (a Login makes the first and the last)
SignupCalls == {"byEmail", "create", "session"}

\* the response sets no auth_token cookie
NoAuthCookie(r) ==
  \A i \in 1..Len(r.rq.out.cookies) : r.rq.out.cookies[i].Name # "auth_token"

FailedSetsNoCookie(r) ==
  r.rq.out.err # ErrNil => NoAuthCookie(r) /\ r.rq.out.data = NoData

FailedLoginAddsNoSession(r) ==
  r.rq.out.err # ErrNil =>
    /\ NoAuthCookie(r) /\ r.rq.out.data = NoData
    /\ r.db.sessions = sessions /\ r.db.sessSeq = sessSeq

\* C35: a Signup or Login that returns an error sets no auth_token cookie on
\* the response, neither in the resolver nor in InterceptResponse (the
\* response carries no payload to take a token from), whatever makes it fail:
\* a conflict, unknown user, wrong password, or the store unreachable from the
\* start or after any number of round trips; a failed Login leaves the
\* session rows as they are.
C35_FailedAuthSetsNoCookie ==
  /\ \A k \in 0..Cardinality(SignupCalls) :
       \A in \in SignupInputs : FailedSetsNoCookie(ResultDownAfter("signup", in, k))
  /\ \A k \in 0..(Cardinality(SignupCalls) - 1) :
       \A in \in LoginInputs : FailedLoginAddsNoSession(ResultDownAfter("login", in, k))

\* a Login has lost the store between its lookup and the insert of the
\* session, while a session exists
C35_Witness ==
  /\ resp.op = "login" /\ resp.err = Wrap(ErrCreateSession, ErrConnection) /\ resp.w
  /\ sessions # {} /\ reqs = <<>>

\* ---- C36
\* the same signup sent again once the store is reachable
Retried(r, in) == Run([r.db EXCEPT !.down = FALSE], NewReq("signup", in), now)

AllOrNothing(r, in) ==
  r.rq.out.err # ErrNil /\ ~Registered(in.email) =>
    /\ r.db.users = users
    /\ Retried(r, in).rq.out.err # ErrEmailExists

\* C36: a Signup that returns an error, the store having become unreachable
\* before the request or after any of its round trips, has added no user
\* row, and the same signup sent again is not rejected as a conflict.
C36_SignupAllOrNothing ==
  \A k \in 0..Cardinality(SignupCalls) :
    \A in \in SignupInputs : AllOrNothing(ResultDownAfter("signup", in, k), in)

\* ---- C37
\* no two rows hold the same non-empty id of the provider
ProviderIDsUnique(rows, op) ==
  \A u, v \in rows :
    (HasProviderID(u, op) /\ HasProviderID(v, op) /\ u.id # v.id) =>
      (IF op = "google" THEN u.googleID.String # v.googleID.String
       ELSE u.githubID.String # v.githubID.String)

UniqueAfter(r) == \A p \in Providers : ProviderIDsUnique(r.db.users, p)

\* C37: no two user rows share a non-empty Google id and no two share a
\* non-empty GitHub id, in the current state and after any callback served
\* in it, whatever email the provider account now has.
C37_ProviderIDUnique ==
  /\ \A p \in Providers : ProviderIDsUnique(users, p)
  /\ \A op \in Providers : \A in \in LinkageRequests(op) : UniqueAfter(Result(op, in))

\* ---- C38
\* C38: no user row has an empty email: a GitHub callback whose identity
\* resolution yields no email creates no row and links no row.
C38_NoEmptyEmail == \A u \in users : u.email # ""

\* ---- C39
\* the claims of the token name the user row u
ClaimsName(claims, u) ==
  /\ claims.sub = UUIDString(u.id)
  /\ claims.userId = UUIDString(u.id)
  /\ claims.email = u.email

\* the token of the session row s, validated at time t, yields claims naming
\* the row's user
ValidatesToOwner(s, t) ==
  /\ ValidateJWT(DB, s.token, t).err = ErrNil
  /\ \E u \in users : u.id = s.userId /\ ClaimsName(ValidateJWT(DB, s.token, t).claims, u)

\* the token's own expiry has not been reached at time t
BeforeTokenExpiry(s, t) == t < s.token.claims.exp * TicksPerSec

\* C39: every session row refers to an existing user; its token is signed
\* with the process secret and carries claims whose subject and userId are
\* the row's user id and whose email is that user's email; the token
\* validates to these claims at every time before its expiry and fails
\* validation from its expiry on, while the row stays in the table.
C39_SessionTokenOwner ==
  \A s \in sessions :
    /\ \E u \in users : u.id = s.userId /\ ClaimsName(s.token.claims, u)
    /\ s.token.sig = jwtSecret
    /\ BeforeTokenExpiry(s, now) => ValidatesToOwner(s, now)
    /\ ~BeforeTokenExpiry(s, now) => ValidateJWT(DB, s.token, now).err # ErrNil

\* the statement as claimed: in every state the token of every session row
\* validates to the claims of its user
C39_TokenValidatesAlways == \A s \in sessions : ValidatesToOwner(s, now)

\* a session of a password account whose token has expired stays next to a
\* session an OAuth callback has created after the expiry for the same
\* account
C39_Witness ==
  /\ resp.op \in Providers /\ resp.err = ErrNil
  /\ \E s, r \in sessions :
       /\ s.userId = r.userId
       /\ ~BeforeTokenExpiry(s, now) /\ BeforeTokenExpiry(r, now)
       /\ \E u \in users : u.id = s.userId /\ u.passwordHash # EmptyHash

\* ---- C40
\* the session rows a Logout has removed
Removed(r) == sessions \ r.db.sessions

LogoutFrame(r, cookie) ==
  /\ r.db.users = users
  /\ r.db.sessions \subseteq sessions
  /\ \A s \in Removed(r) : s.token = cookie
  /\ Cardinality(Removed(r)) <= 1

\* C40: a Logout changes no user row and removes at most one session row,
\* the one created together with the token of the request's cookie; every
\* other session row, of this user or another, stays as it is.
C40_LogoutRemovesOneSession ==
  \A in \in CookieRequests : LogoutFrame(Result("logout", in), in.cookie)

\* the three ways a presented token fails validation at the current time:
\* malformed, not signed with the process secret, past its expiry
TokenProblem(c) ==
  \/ c.kind # "jwt"
  \/ c.sig # jwtSecret
  \/ ~(now < c.claims.exp * TicksPerSec)

AuthErrors == {ErrNotAuthenticated, ErrInvalidToken}

\* the GraphQL users whose id is the userId claim of the token c
UsersOfToken(c) == {dbUserToModel(u) : u \in {x \in users : UUIDString(x.id) = c.claims.userId}}

\* C7 as claimed: Me fails 'not authenticated' without a cookie, fails with an
\* authentication error for a malformed, wrongly signed or expired token,
\* fails 'user not found' when the token's user id resolves to no stored
\* user, and otherwise returns exactly the user whose id is in the claims.
C7_MeAsClaimed ==
  \A in \in CookieRequests :
    LET r == Result("me", in)
        c == in.cookie
    IN /\ r.db = DB
       /\ IF c = NoCookie THEN r.rq.out.err = ErrNotAuthenticated
          ELSE IF TokenProblem(c) THEN r.rq.out.err \in AuthErrors
          ELSE IF UsersOfToken(c) = {} THEN r.rq.out.err = ErrUserNotFound
          ELSE r.rq.out.err = ErrNil /\ UsersOfToken(c) = {r.rq.out.data.user}

\* C7 (amended): as claimed, except that a validly signed, unexpired token
\* whose userId claim is not a UUID fails with 'invalid user ID in token'
\* rather than 'user not found'.  In particular Me with the cookie set by a
\* just-completed signup returns the signed-up user.
C7_Me ==
  /\ \A in \in CookieRequests :
       LET r == Result("me", in)
           c == in.cookie
       IN /\ r.db = DB
          /\ IF c = NoCookie THEN r.rq.out.err = ErrNotAuthenticated
             ELSE IF TokenProblem(c) THEN r.rq.out.err = ErrInvalidToken
             ELSE IF ~c.claims.userId.valid
               THEN r.rq.out.err = Wrap(ErrInvalidUserID, ErrInvalidUUID)
             ELSE IF UsersOfToken(c) = {} THEN r.rq.out.err = ErrUserNotFound
             ELSE r.rq.out.err = ErrNil /\ UsersOfToken(c) = {r.rq.out.data.user}
  /\ \A in \in SignupInputs :
       LET r == Result("signup", in)
       IN (r.rq.out.err = ErrNil /\ in.w) =>
            LET m == Run(r.db, NewReq("me", [w |-> TRUE, cookie |-> r.rq.out.cookies[1].Value]), now)
            IN /\ m.rq.out.err = ErrNil
               /\ m.rq.out.data.user = r.rq.out.data.user
               /\ m.rq.out.data.user.email = in.email

C7_Witness ==
  /\ resp.op = "me" /\ resp.err = ErrNil /\ resp.cookie \in issued
  /\ Cardinality(users) > 1

C7_WitnessUserNotFound == resp.op = "me" /\ resp.err = ErrUserNotFound

\* C8: a Me whose cookie token belongs to a session that has been deleted (no
\* session row carries the token any more) fails with an authentication error
\* or 'user not found'; it does not return the user.
C8_MeFailsForDeletedSession ==
  (/\ resp.op = "me"
   /\ resp.cookie \in issued
   /\ ~\E s \in sessions : s.token = resp.cookie)
  => resp.err \in AuthErrors \cup {ErrUserNotFound}

C10_LogoutDeletesSession ==
  \A in \in CookieRequests :
    LET r == Result("logout", in)
    IN /\ r.rq.out.err = ErrNil
       /\ r.rq.out.data = [kind |-> "bool", value |-> TRUE]
       /\ in.cookie # NoCookie => GetSessionByToken(r.db, in.cookie, now).err = ErrNoRows

C10_Witness ==
  /\ resp.op = "logout" /\ resp.err = ErrNil /\ resp.cookie \in issued
  /\ now < resp.cookie.claims.exp * TicksPerSec
  /\ GetSessionByToken(DB, resp.cookie, now).err = ErrNoRows
  /\ sessions # {}
====
